---- MODULE Spec2Model ----
(***************************************************************************)
(* Zoom attendance services (kervengully/zoom).                            *)
(*                                                                         *)
(* The repository holds several near-duplicate webhook services.  Three    *)
(* of them keep an in-memory tracker (ongoingMeetings):                    *)
(*   "socketio" : src/index.js lines 1-276   (JSON + CSV + socket.io)      *)
(*   "email"    : src/index.js lines 278-628 (per-host CSV + e-mail)       *)
(*   "csv"      : src/unnamed/part_003       (one CSV, no notifier)        *)
(* Two keep the open rows in attendance.csv and run a proactive monitor:   *)
(*   "cancel"   : src/unnamed/part_002  (sweep cancels the old jobs)       *)
(*   "nocancel" : src/index.html 379-560 (sweep never cancels)             *)
(* Two keep every meeting as a row of attendance.csv and read and write    *)
(* the file asynchronously:                                                *)
(*   "part_000"   : src/unnamed/part_000                                   *)
(*   "index.html" : src/index.html 179-377                                 *)
(*                                                                         *)
(* Instants are whole seconds of Europe/London wall-clock time, counted    *)
(* from a Sunday 00:00:00, within a period of constant UTC offset.         *)
(***************************************************************************)
EXTENDS Integers, Sequences, FiniteSets, TLC

VARIABLES
    variant,          \* which tracker-based service is running
    ongoingMeetings,  \* the tracker: the open sessions, by meeting id
    attendance,       \* the persisted attendance records, in write order
    mailbox,          \* the notifications handed to sendEmailToIT, in order
    res,              \* HTTP status of the last webhook request (0: none yet)
    resBody,          \* JSON body of the response to it, NoBody when it has none
    responses,        \* number of responses the handler sent for that request
    req,              \* the last webhook request: event type, signature, shape
    journal,          \* per meeting id: what has been received and observed
    handled,          \* number of webhook requests handled so far
    evalIn,           \* evaluator input: variant, course, start, end
    evalOut,          \* evaluator output, or NoEval
    monVariant,       \* which monitor service is running
    clock,            \* the current day and the slot of the day
    boot,             \* the day and slot at which the server started
    todaysCourses,    \* the courses loaded by loadTodaysCourses
    jobs,             \* the live node-schedule jobs of the course checks
    due,              \* the timer callbacks that are due now, in firing order
    csvLines,         \* the lines of attendance.csv after the header line
    sent,             \* the escalation mails sent, in order
    asyncVariant,     \* which asynchronous CSV service is running
    csvFile,          \* attendance.csv of that service: exists, rows
    inFlight,         \* its file operations that have started and not finished
    accepted,         \* the meeting ids of the started events it answered with 200
    closing,          \* the ids of its ended events handled after their started event
    clientVariant,    \* which dashboard client script the page runs
    attendanceRecords,\* the client's list of records
    tbody,            \* the rows of #coursesTable as last rendered
    initial,          \* the list the client started from (the last initialData)
    updates           \* the attendanceUpdated messages received since, in order

vars == <<variant, ongoingMeetings, attendance, mailbox, res, resBody, responses,
          req, journal,
          handled,
          evalIn, evalOut,
          monVariant, clock, boot, todaysCourses, jobs, due, csvLines, sent,
          asyncVariant, csvFile, inFlight, accepted, closing,
          clientVariant, attendanceRecords, tbody, initial, updates>>

monVars == <<monVariant, clock, boot, todaysCourses, jobs, due, csvLines, sent>>

trackerVars ==
    <<variant, ongoingMeetings, attendance, mailbox, res, resBody, responses, req,
      journal, handled>>

\* the state of the tracker-based services that a request to another service
\* leaves alone
sessionVars == <<variant, ongoingMeetings, attendance, mailbox, journal>>

asyncVars == <<asyncVariant, csvFile, inFlight, accepted, closing>>

evalVars == <<evalIn, evalOut>>

clientVars == <<clientVariant, attendanceRecords, tbody, initial, updates>>

---------------------------------------------------------------------------
(* Bounds of the model *)

MaxEvents == 3

(* Program constants *)

GraceMinutes == 3

ReferenceMinutes == 40

SixDays == 6

ThreeDays == 3

---------------------------------------------------------------------------
(* Time *)

Day == 24 * 60 * 60

Week == 7 * Day

At(day, hour, minute, second) == ((day * 24 + hour) * 60 + minute) * 60 + second

weekDayNumbers ==
    [Sunday |-> 0, Monday |-> 1, Tuesday |-> 2, Wednesday |-> 3,
     Thursday |-> 4, Friday |-> 5, Saturday |-> 6]

WeekDayNames ==
    <<"Sunday", "Monday", "Tuesday", "Wednesday", "Thursday", "Friday", "Saturday">>

\* moment#diff(that, unit): the difference in whole units, truncated toward zero
diff(a, b, unit) ==
    IF a - b >= 0 THEN (a - b) \div unit ELSE -((b - a) \div unit)

\* Mutant: the start of a period of four weeks instead of the week
startOfWeek_fourWeeks(t) == (t \div (4 * Week)) * (4 * Week)

\* moment#startOf('week') in the default locale: the preceding Sunday 00:00:00
startOfWeek(t) == (t \div Week) * Week

\* moment#format('HH:mm'): the minute of the day, seconds dropped
formatHHmm(t) == (t % Day) \div 60

\* moment#format of the calendar date: the day number
formatDate(t) == t \div Day

\* moment#format('dddd')
formatDddd(t) == WeekDayNames[((t \div Day) % 7) + 1]

\* Number#toFixed(2) of an amount given in fortieths of a pound: the amount in
\* pence, rounded to the nearest penny (ties away from zero)
toFixed2(x40) ==
    IF x40 >= 0 THEN (x40 * 5 + 1) \div 2 ELSE -(((-x40) * 5 + 1) \div 2)

Min(a, b) == IF a <= b THEN a ELSE b

---------------------------------------------------------------------------
(* Course registry *)

courses ==
    << [course_name |-> "Algebra 10", teacher_name |-> "Dee",
        scheduled_week_day |-> "Wednesday", scheduled_time |-> <<10, 0>>,
        rate_pound |-> 20],
       [course_name |-> "Algebra 1", teacher_name |-> "Ann",
        scheduled_week_day |-> "Monday", scheduled_time |-> <<9, 0>>,
        rate_pound |-> 40],
       [course_name |-> "Chess", teacher_name |-> "Bob",
        scheduled_week_day |-> "Monday", scheduled_time |-> <<9, 0>>,
        rate_pound |-> 0],
       [course_name |-> "Chess", teacher_name |-> "Cy",
        scheduled_week_day |-> "Tuesday", scheduled_time |-> <<9, 0>>,
        rate_pound |-> 20] >>

\* Mutant: the last course whose name equals the topic
findCourse_last(topic) ==
    IF \E i \in 1..Len(courses) : courses[i].course_name = topic
    THEN CHOOSE i \in 1..Len(courses) :
            /\ courses[i].course_name = topic
            /\ \A j \in (i + 1)..Len(courses) : courses[j].course_name # topic
    ELSE 0

\* courses.find((c) => c.course_name === topic): index of the first course whose
\* name equals the topic, 0 when there is none (undefined)
findCourse(topic) ==
    IF \E i \in 1..Len(courses) : courses[i].course_name = topic
    THEN CHOOSE i \in 1..Len(courses) :
            /\ courses[i].course_name = topic
            /\ \A j \in 1..(i - 1) : courses[j].course_name # topic
    ELSE 0

---------------------------------------------------------------------------
(* Attendance evaluator *)

\* Mutant: a duration that is not positive is recorded as 0
computeTotalMinutes_clamped(startTime, endTime) ==
    IF endTime <= startTime THEN 0 ELSE diff(endTime, startTime, 60)

\* end.diff(start, "minutes")
computeTotalMinutes(startTime, endTime) == diff(endTime, startTime, 60)

\* Mutant: the week of the start begins on Monday (startOf('isoWeek'))
scheduledInWeekOf_isoWeek(actualStartTime, scheduledWeekDay, scheduledTime) ==
    startOfWeek(actualStartTime - Day) + Day
        + weekDayNumbers[scheduledWeekDay] * Day
        + (scheduledTime[1] * 60 + scheduledTime[2]) * 60

\* the occurrence of the course's weekday and time in the week of the start
scheduledInWeekOf(actualStartTime, scheduledWeekDay, scheduledTime) ==
    startOfWeek(actualStartTime)
        + weekDayNumbers[scheduledWeekDay] * Day
        + (scheduledTime[1] * 60 + scheduledTime[2]) * 60

\* Mutant: the 6 days are compared with the exact difference of the instants
getScheduledDateTime6_exact(actualStartTime, scheduledWeekDay, scheduledTime) ==
    LET s0 == scheduledInWeekOf(actualStartTime, scheduledWeekDay, scheduledTime)
        s1 == IF s0 - actualStartTime < -(SixDays * Day) THEN s0 + 7 * Day ELSE s0
        s2 == IF s1 - actualStartTime > SixDays * Day THEN s1 - 7 * Day ELSE s1
    IN  s2

\* getScheduledDateTime of the socket.io service (6-day rule)
getScheduledDateTime6(actualStartTime, scheduledWeekDay, scheduledTime) ==
    LET s0 == scheduledInWeekOf(actualStartTime, scheduledWeekDay, scheduledTime)
        s1 == IF diff(s0, actualStartTime, Day) < -SixDays THEN s0 + 7 * Day ELSE s0
        s2 == IF diff(s1, actualStartTime, Day) > SixDays THEN s1 - 7 * Day ELSE s1
    IN  s2

\* getScheduledDateTime of the e-mail and CSV services (3-day rule)
getScheduledDateTime3(actualStartTime, scheduledWeekDay, scheduledTime) ==
    LET s0 == scheduledInWeekOf(actualStartTime, scheduledWeekDay, scheduledTime)
    IN  IF s0 > actualStartTime + ThreeDays * Day THEN s0 - 7 * Day
        ELSE IF s0 < actualStartTime - ThreeDays * Day THEN s0 + 7 * Day
        ELSE s0

\* socket.io service: "Not attended" when start isSameOrAfter scheduled - 3 min
statusSocketIo(startTime, scheduledDateTime) ==
    IF startTime >= scheduledDateTime - GraceMinutes * 60
    THEN "Not attended" ELSE "Attended"

\* Mutant: the start is compared with the scheduled time, without the grace
statusEmail_noGrace(startTime, scheduledDateTime) ==
    IF startTime <= scheduledDateTime THEN "Attended" ELSE "Not attended"

\* e-mail and CSV services: "Attended" when start isSameOrBefore scheduled - 3 min
statusEmail(startTime, scheduledDateTime) ==
    IF startTime <= scheduledDateTime - GraceMinutes * 60
    THEN "Attended" ELSE "Not attended"

\* Mutant: the rate is taken per 60 minutes instead of per 40
calculatedPayment40_perHour(ratePound, totalTime) == (ratePound * totalTime * 2) \div 3

\* rateFormula * totalTime, in fortieths of a pound
calculatedPayment40(ratePound, totalTime) == ratePound * totalTime

\* Mutant: the calculated payment is approved without the cap
approvedPayment40_uncapped(ratePound, totalTime) ==
    calculatedPayment40(ratePound, totalTime)

\* Math.min(calculatedPayment, ratePound), in fortieths of a pound
approvedPayment40(ratePound, totalTime) ==
    Min(calculatedPayment40(ratePound, totalTime), ratePound * ReferenceMinutes)

\* The locals of the meeting.ended handler of the socket.io service
evaluateSocketIo(course, startTime, endTime) ==
    LET totalTime == computeTotalMinutes(startTime, endTime)
        scheduledDateTime ==
            getScheduledDateTime6(startTime, course.scheduled_week_day,
                                  course.scheduled_time)
    IN  [totalTime |-> totalTime,
         ratePound |-> course.rate_pound,
         calculatedPayment |-> calculatedPayment40(course.rate_pound, totalTime),
         approvedPayment |-> approvedPayment40(course.rate_pound, totalTime),
         scheduledDateTime |-> scheduledDateTime,
         status |-> statusSocketIo(startTime, scheduledDateTime)]

\* The locals of the meeting.ended handler of the e-mail service
evaluateEmail(course, startTime, endTime) ==
    LET totalTime == computeTotalMinutes(startTime, endTime)
        scheduledDateTime ==
            getScheduledDateTime3(startTime, course.scheduled_week_day,
                                  course.scheduled_time)
    IN  [totalTime |-> totalTime,
         ratePound |-> course.rate_pound,
         calculatedPayment |-> calculatedPayment40(course.rate_pound, totalTime),
         approvedPayment |-> approvedPayment40(course.rate_pound, totalTime),
         scheduledDateTime |-> scheduledDateTime,
         status |-> statusEmail(startTime, scheduledDateTime)]

\* The locals of the meeting.ended handler of the CSV service, whose helpers
\* (computeTotalMinutes, getScheduledDateTime) are copies of the e-mail service's
evaluateCsv(course, startTime, endTime) ==
    LET totalTime == computeTotalMinutes(startTime, endTime)
        scheduledDateTime ==
            getScheduledDateTime3(startTime, course.scheduled_week_day,
                                  course.scheduled_time)
    IN  [totalTime |-> totalTime,
         ratePound |-> course.rate_pound,
         calculatedPayment |-> calculatedPayment40(course.rate_pound, totalTime),
         approvedPayment |-> approvedPayment40(course.rate_pound, totalTime),
         scheduledDateTime |-> scheduledDateTime,
         status |-> statusEmail(startTime, scheduledDateTime)]

\* calculateTotalTime of the row-store service: Math.round((end - start) / 60000)
calculateTotalTime(startTime, endTime) ==
    ((endTime - startTime) * 2 + 60) \div 120

\* payment of the row-store service: Math.min(ratePound, (ratePound / 40) * totalTime),
\* in fortieths of a pound
paymentRowStore40(ratePound, totalTime) ==
    Min(ratePound * ReferenceMinutes, ratePound * totalTime)

\* The values updateMeetingDetailsOnEnd writes into the row it closes
evaluateRowStore(course, startTime, endTime) ==
    LET totalTime == calculateTotalTime(startTime, endTime)
    IN  [totalTime |-> totalTime,
         ratePound |-> course.rate_pound,
         approvedPayment |-> paymentRowStore40(course.rate_pound, totalTime)]

---------------------------------------------------------------------------
(* Inputs of the webhook services *)

MeetingIds == {"m1", "m2"}

Topics == {"Algebra 1", "Chess", "algebra 1"}

StartTimes == {At(1, 8, 57, 0), At(1, 8, 58, 0), At(1, 9, 1, 0)}

EndTimes == {At(1, 9, 38, 0), At(1, 9, 45, 0), At(1, 8, 57, 0)}

undefined == "undefined"

HostEmails == {undefined, "ann@school.uk"}

Variants == {"socketio", "email", "csv"}

\* The journal of one meeting id:
\*   started        number of meeting.started events handled
\*   ended          number of meeting.ended events handled since the last started
\*                  one (since the beginning when there was none)
\*   run            number of started events in a row, with no ended between them
\*   topic, startTime   payload of the last started event
\*   prevStartTime  start time of the started event before it in the same run
\*   endTime        payload of the last ended event
\*   matched        number of ended events that were the first one after a started
\*                  event whose topic is a course name
\*   status         verdict computed for the session of the last started event
\*   mails          notifications sent for the session of the last started event
NoJournal ==
    [started |-> 0, ended |-> 0, run |-> 0, topic |-> "", startTime |-> -1,
     prevStartTime |-> -1, endTime |-> -1, matched |-> 0, status |-> "none",
     mails |-> 0]

NoEval == [none |-> TRUE]

\* Mutant: a send inside a branch is not followed by a return
responsesSent_noReturn(early, leaves, final) ==
    (IF early THEN 1 ELSE 0) + (IF final THEN 1 ELSE 0)

\* The number of res.status(..).send/json calls on a path of a handler:
\*   early   the path sends a response inside a branch
\*   leaves  the path leaves the handler before its last statement (a return,
\*           a middleware that does not call next(), or a thrown exception)
\*   final   the last statement of the handler sends a response
responsesSent(early, leaves, final) ==
    (IF early THEN 1 ELSE 0) + (IF final /\ ~leaves THEN 1 ELSE 0)

\* a response sent with send(): it has no JSON body
NoBody == [none |-> TRUE]

\* res.status(200).json({ message: 'Event processed.' })
EventProcessed == [message |-> "Event processed."]

\* res.status(200).json({ message: 'No matching course found.' })
NoMatchingCourse == [message |-> "No matching course found."]

\* A webhook request as the handlers see it: req.body.event, whether the
\* x-zm-signature header equals the expected signature, and whether
\* req.body.payload.object and the fields of the event are present
request(event, signed, wellFormed) ==
    [event |-> event, signed |-> signed, wellFormed |-> wellFormed]

NoRequest == request("none", TRUE, TRUE)

\* ongoingMeetings[id] = session
put(om, id, session) ==
    [k \in (DOMAIN om) \cup {id} |-> IF k = id THEN session ELSE om[k]]

\* Mutant: the whole tracker is cleared
delete_all(om, id) == [k \in {} |-> NoEval]

\* delete ongoingMeetings[id]
delete(om, id) == [k \in (DOMAIN om) \ {id} |-> om[k]]

\* What the journal notes when a meeting.started event for the id is handled
journalStarted(j, topic, startTime) ==
    [j EXCEPT !.started = @ + 1, !.ended = 0,
              !.run = IF j.started > 0 /\ j.ended = 0 THEN @ + 1 ELSE 1,
              !.prevStartTime = IF j.started > 0 /\ j.ended = 0 THEN j.startTime ELSE -1,
              !.topic = topic, !.startTime = startTime,
              !.status = "none", !.mails = 0]

\* What the journal notes when a meeting.ended event for the id is handled:
\* status is the verdict the handler computed ("none" when it computed none),
\* mails the number of notifications it sent
journalEnded(j, endTime, status, mails) ==
    [j EXCEPT !.ended = @ + 1, !.endTime = endTime,
              !.matched = IF j.started > 0 /\ j.ended = 0
                             /\ \E i \in 1..Len(courses) : courses[i].course_name = j.topic
                          THEN @ + 1 ELSE @,
              !.status = IF status = "none" THEN @ ELSE status,
              !.mails = @ + mails]

\* The record the handlers build from the course, the session and the end time
attendanceRecord(course, topic, meetingId, startTime, endTime, e) ==
    [teacher_name |-> course.teacher_name,
     course_name |-> topic,
     meeting_id |-> meetingId,
     scheduled_week_day |-> course.scheduled_week_day,
     attended_week_day |-> formatDddd(startTime),
     date |-> formatDate(startTime),
     scheduled_time |-> course.scheduled_time,
     entered_time |-> formatHHmm(startTime),
     finished_time |-> formatHHmm(endTime),
     total_time |-> e.totalTime,
     rate_pound |-> course.rate_pound,
     calculated_payment |-> toFixed2(e.calculatedPayment),
     approved_payment |-> toFixed2(e.approvedPayment),
     status |-> e.status]

\* The asynchronous CSV services are not running
AsyncOff ==
    /\ asyncVariant = "none"
    /\ csvFile = [exists |-> FALSE, rows |-> <<>>]
    /\ inFlight = <<>>
    /\ accepted = {}
    /\ closing = {}

\* No dashboard page is open
ClientOff ==
    /\ clientVariant = "none"
    /\ attendanceRecords = <<>>
    /\ tbody = <<>>
    /\ initial = <<>>
    /\ updates = <<>>

\* The monitor services are not running
MonitorOff ==
    /\ monVariant = "none"
    /\ clock = [day |-> 0, slot |-> 0]
    /\ boot = [day |-> 0, slot |-> 0]
    /\ todaysCourses = <<>>
    /\ jobs = <<>>
    /\ due = <<>>
    /\ csvLines = <<>>
    /\ sent = <<>>

---------------------------------------------------------------------------
(* socket.io service, src/index.js 96-219 *)

\* The handler has no signature check: signed is whatever the sender made it
SocketIoMeetingStarted(id, topic, startTime, signed) ==
    /\ variant = "socketio"
    /\ handled < MaxEvents
    /\ req' = request("meeting.started", signed, TRUE)
    /\ ongoingMeetings' =
          put(ongoingMeetings, id,
              [topic |-> topic, startTime |-> startTime, hostId |-> "host"])
    /\ res' = 200 /\ resBody' = EventProcessed
    /\ responses' = responsesSent(FALSE, FALSE, TRUE)
    /\ journal' = [journal EXCEPT ![id] = journalStarted(@, topic, startTime)]
    /\ handled' = handled + 1
    /\ UNCHANGED <<variant, attendance, mailbox, evalVars, monVars, asyncVars, clientVars>>

\* meeting.ended for an id with no open session: only the error is logged
SocketIoEndedNoSession(id, endTime) ==
    /\ res' = 200 /\ resBody' = EventProcessed
    /\ responses' = responsesSent(FALSE, FALSE, TRUE)
    /\ journal' = [journal EXCEPT ![id] = journalEnded(@, endTime, "none", 0)]
    /\ UNCHANGED <<ongoingMeetings, attendance>>

\* writeFails: fs.writeFileSync of attendance.json throws inside saveAttendanceRecord
SocketIoMeetingEnded(id, endTime, writeFails, signed) ==
    /\ variant = "socketio"
    /\ handled < MaxEvents
    /\ handled' = handled + 1
    /\ req' = request("meeting.ended", signed, TRUE)
    /\ UNCHANGED <<variant, mailbox, evalVars, monVars, asyncVars, clientVars>>
    /\ IF id \in DOMAIN ongoingMeetings
       THEN LET topic == ongoingMeetings[id].topic
                startTime == ongoingMeetings[id].startTime
                c == findCourse(topic)
            IN  IF c = 0
                THEN \* return res.status(200): the session is not deleted
                     /\ res' = 200 /\ resBody' = NoMatchingCourse
                     /\ responses' = responsesSent(TRUE, TRUE, TRUE)
                     /\ journal' = [journal EXCEPT ![id] = journalEnded(@, endTime, "none", 0)]
                     /\ UNCHANGED <<ongoingMeetings, attendance>>
                ELSE LET e == evaluateSocketIo(courses[c], startTime, endTime)
                         r == attendanceRecord(courses[c], topic, id, startTime, endTime, e)
                     IN  /\ journal' = [journal EXCEPT ![id] = journalEnded(@, endTime, e.status, 0)]
                         /\ IF writeFails
                            THEN \* the exception leaves the handler before the delete
                                 /\ res' = 500 /\ resBody' = NoBody
                                 /\ responses' = responsesSent(FALSE, TRUE, TRUE)
                                 /\ UNCHANGED <<ongoingMeetings, attendance>>
                            ELSE /\ attendance' = Append(attendance, r)
                                 /\ ongoingMeetings' = delete(ongoingMeetings, id)
                                 /\ res' = 200 /\ resBody' = EventProcessed
                                 /\ responses' = responsesSent(FALSE, FALSE, TRUE)
       ELSE SocketIoEndedNoSession(id, endTime)

---------------------------------------------------------------------------
(* e-mail service, src/index.js 375-578 *)

\* Mutant: a started event for an id that is already open keeps the first session
EmailMeetingStarted_firstWins(id, topic, startTime, hostEmail) ==
    /\ variant = "email"
    /\ handled < MaxEvents
    /\ req' = request("meeting.started", TRUE, TRUE)
    /\ ongoingMeetings' =
          IF id \in DOMAIN ongoingMeetings THEN ongoingMeetings
          ELSE put(ongoingMeetings, id,
                   [topic |-> topic, startTime |-> startTime, hostEmail |-> hostEmail])
    /\ res' = 200 /\ resBody' = EventProcessed
    /\ responses' = responsesSent(FALSE, FALSE, TRUE)
    /\ journal' = [journal EXCEPT ![id] = journalStarted(@, topic, startTime)]
    /\ handled' = handled + 1
    /\ UNCHANGED <<variant, attendance, mailbox, evalVars, monVars, asyncVars, clientVars>>

EmailMeetingStarted(id, topic, startTime, hostEmail) ==
    /\ variant = "email"
    /\ handled < MaxEvents
    /\ req' = request("meeting.started", TRUE, TRUE)
    /\ ongoingMeetings' =
          put(ongoingMeetings, id,
              [topic |-> topic, startTime |-> startTime, hostEmail |-> hostEmail])
    /\ res' = 200 /\ resBody' = EventProcessed
    /\ responses' = responsesSent(FALSE, FALSE, TRUE)
    /\ journal' = [journal EXCEPT ![id] = journalStarted(@, topic, startTime)]
    /\ handled' = handled + 1
    /\ UNCHANGED <<variant, attendance, mailbox, evalVars, monVars, asyncVars, clientVars>>

\* meeting.ended for an id with no open session: only the error is logged
EmailEndedNoSession(id, endTime) ==
    /\ res' = 200 /\ resBody' = EventProcessed
    /\ responses' = responsesSent(FALSE, FALSE, TRUE)
    /\ journal' = [journal EXCEPT ![id] = journalEnded(@, endTime, "none", 0)]
    /\ UNCHANGED <<ongoingMeetings, attendance, mailbox>>

\* writeRejected: the promise of csvWriter.writeRecords is rejected; the catch
\* logs the error after the handler has finished
EmailMeetingEnded(id, endTime, writeRejected) ==
    /\ variant = "email"
    /\ handled < MaxEvents
    /\ handled' = handled + 1
    /\ req' = request("meeting.ended", TRUE, TRUE)
    /\ UNCHANGED <<variant, evalVars, monVars, asyncVars, clientVars>>
    /\ IF id \in DOMAIN ongoingMeetings
       THEN LET topic == ongoingMeetings[id].topic
                startTime == ongoingMeetings[id].startTime
                hostEmail == ongoingMeetings[id].hostEmail
                c == findCourse(topic)
            IN  IF c = 0
                THEN /\ ongoingMeetings' = delete(ongoingMeetings, id)
                     /\ res' = 200 /\ resBody' = NoMatchingCourse
                     /\ responses' = responsesSent(TRUE, TRUE, TRUE)
                     /\ journal' = [journal EXCEPT ![id] = journalEnded(@, endTime, "none", 0)]
                     /\ UNCHANGED <<attendance, mailbox>>
                ELSE LET e == evaluateEmail(courses[c], startTime, endTime)
                         r == attendanceRecord(courses[c], topic, id, startTime, endTime, e)
                                 @@ [email |-> hostEmail]
                         late == e.status = "Not attended"
                     IN  /\ mailbox' = IF late
                                       THEN Append(mailbox, [topic |-> topic, host |-> hostEmail])
                                       ELSE mailbox
                         /\ journal' = [journal EXCEPT
                                           ![id] = journalEnded(@, endTime, e.status, IF late THEN 1 ELSE 0)]
                         /\ IF hostEmail = undefined
                            THEN \* hostEmail.replace throws in saveAttendanceRecord,
                                 \* before any write and before the delete
                                 /\ res' = 500 /\ resBody' = NoBody
                                 /\ responses' = responsesSent(FALSE, TRUE, TRUE)
                                 /\ UNCHANGED <<ongoingMeetings, attendance>>
                            ELSE /\ attendance' = IF writeRejected THEN attendance
                                                  ELSE Append(attendance, r)
                                 /\ ongoingMeetings' = delete(ongoingMeetings, id)
                                 /\ res' = 200 /\ resBody' = EventProcessed
                                 /\ responses' = responsesSent(FALSE, FALSE, TRUE)
       ELSE EmailEndedNoSession(id, endTime)

---------------------------------------------------------------------------
(* CSV service, src/unnamed/part_003 116-243 *)

CsvMeetingStarted(id, topic, startTime) ==
    /\ variant = "csv"
    /\ handled < MaxEvents
    /\ req' = request("meeting.started", TRUE, TRUE)
    /\ ongoingMeetings' =
          put(ongoingMeetings, id, [topic |-> topic, startTime |-> startTime])
    /\ res' = 200 /\ resBody' = EventProcessed
    /\ responses' = responsesSent(FALSE, FALSE, TRUE)
    /\ journal' = [journal EXCEPT ![id] = journalStarted(@, topic, startTime)]
    /\ handled' = handled + 1
    /\ UNCHANGED <<variant, attendance, mailbox, evalVars, monVars, asyncVars, clientVars>>

\* Mutant: an ended event without a session is recorded as a missed lesson
CsvEndedNoSession_recorded(id, endTime) ==
    /\ res' = 200 /\ resBody' = EventProcessed
    /\ responses' = responsesSent(FALSE, FALSE, TRUE)
    /\ journal' = [journal EXCEPT ![id] = journalEnded(@, endTime, "none", 0)]
    /\ attendance' = Append(attendance,
                            [meeting_id |-> id, finished_time |-> formatHHmm(endTime),
                             status |-> "Not attended"])
    /\ UNCHANGED ongoingMeetings

\* meeting.ended for an id with no open session: only the error is logged
CsvEndedNoSession(id, endTime) ==
    /\ res' = 200 /\ resBody' = EventProcessed
    /\ responses' = responsesSent(FALSE, FALSE, TRUE)
    /\ journal' = [journal EXCEPT ![id] = journalEnded(@, endTime, "none", 0)]
    /\ UNCHANGED <<ongoingMeetings, attendance>>

\* writeRejected: the promise of csvWriter.writeRecords is rejected; the catch
\* logs the error after the handler has finished
CsvMeetingEnded(id, endTime, writeRejected) ==
    /\ variant = "csv"
    /\ handled < MaxEvents
    /\ handled' = handled + 1
    /\ req' = request("meeting.ended", TRUE, TRUE)
    /\ UNCHANGED <<variant, mailbox, evalVars, monVars, asyncVars, clientVars>>
    /\ IF id \in DOMAIN ongoingMeetings
       THEN LET topic == ongoingMeetings[id].topic
                startTime == ongoingMeetings[id].startTime
                c == findCourse(topic)
            IN  IF c = 0
                THEN /\ ongoingMeetings' = delete(ongoingMeetings, id)
                     /\ res' = 200 /\ resBody' = NoMatchingCourse
                     /\ responses' = responsesSent(TRUE, TRUE, TRUE)
                     /\ journal' = [journal EXCEPT ![id] = journalEnded(@, endTime, "none", 0)]
                     /\ UNCHANGED attendance
                ELSE LET e == evaluateCsv(courses[c], startTime, endTime)
                         r == attendanceRecord(courses[c], topic, id, startTime, endTime, e)
                     IN  /\ journal' = [journal EXCEPT ![id] = journalEnded(@, endTime, e.status, 0)]
                         /\ attendance' = IF writeRejected THEN attendance
                                          ELSE Append(attendance, r)
                         /\ ongoingMeetings' = delete(ongoingMeetings, id)
                         /\ res' = 200 /\ resBody' = EventProcessed
                         /\ responses' = responsesSent(FALSE, FALSE, TRUE)
       ELSE CsvEndedNoSession(id, endTime)

---------------------------------------------------------------------------
(* Rejected, unhandled and malformed requests of the tracker-based services *)

GatedEvents == {"meeting.started", "meeting.ended"}

\* an event type the handlers have no branch for
OtherEvent == "meeting.participant_joined"

\* what is missing from the body of a malformed request
Shapes == {"noPayload", "noObject", "noFields"}

\* the start time carried by a started request that lacks its topic
MalformedStartTimes == {At(1, 8, 57, 0)}

\* e-mail service: the signature header differs from the expected signature
EmailUnauthorized(event) ==
    /\ variant = "email"
    /\ handled < MaxEvents
    /\ handled' = handled + 1
    /\ req' = request(event, FALSE, TRUE)
    /\ res' = 401 /\ resBody' = NoBody
    /\ responses' = responsesSent(TRUE, TRUE, TRUE)
    /\ UNCHANGED <<variant, ongoingMeetings, attendance, mailbox, journal,
                   evalVars, monVars, asyncVars, clientVars>>

\* CSV service: the signature header differs from the expected signature
CsvUnauthorized(event) ==
    /\ variant = "csv"
    /\ handled < MaxEvents
    /\ handled' = handled + 1
    /\ req' = request(event, FALSE, TRUE)
    /\ res' = 401 /\ resBody' = NoBody
    /\ responses' = responsesSent(TRUE, TRUE, TRUE)
    /\ UNCHANGED <<variant, ongoingMeetings, attendance, mailbox, journal,
                   evalVars, monVars, asyncVars, clientVars>>

\* socket.io service: the final else logs the event type, then 200
SocketIoUnhandledEvent(signed) ==
    /\ variant = "socketio"
    /\ handled < MaxEvents
    /\ handled' = handled + 1
    /\ req' = request(OtherEvent, signed, TRUE)
    /\ res' = 200 /\ resBody' = EventProcessed
    /\ responses' = responsesSent(FALSE, FALSE, TRUE)
    /\ UNCHANGED <<variant, ongoingMeetings, attendance, mailbox, journal,
                   evalVars, monVars, asyncVars, clientVars>>

\* e-mail service: the final else logs the event type, then 200
EmailUnhandledEvent ==
    /\ variant = "email"
    /\ handled < MaxEvents
    /\ handled' = handled + 1
    /\ req' = request(OtherEvent, TRUE, TRUE)
    /\ res' = 200 /\ resBody' = EventProcessed
    /\ responses' = responsesSent(FALSE, FALSE, TRUE)
    /\ UNCHANGED <<variant, ongoingMeetings, attendance, mailbox, journal,
                   evalVars, monVars, asyncVars, clientVars>>

\* CSV service: the final else logs the event type, then 200
CsvUnhandledEvent ==
    /\ variant = "csv"
    /\ handled < MaxEvents
    /\ handled' = handled + 1
    /\ req' = request(OtherEvent, TRUE, TRUE)
    /\ res' = 200 /\ resBody' = EventProcessed
    /\ responses' = responsesSent(FALSE, FALSE, TRUE)
    /\ UNCHANGED <<variant, ongoingMeetings, attendance, mailbox, journal,
                   evalVars, monVars, asyncVars, clientVars>>

\* socket.io service, a started or ended request with a malformed body:
\*   noPayload  req.body.payload.object throws a TypeError (line 98)
\*   noObject   payload is undefined, payload.id throws (lines 116, 132)
\*   noFields   started without a topic: the session is stored with an
\*              undefined topic; ended without an id: ongoingMeetings[undefined]
\*              is not there, the error is logged
\* An exception that leaves the handler is answered by Express with 500.
SocketIoMalformed(event, shape, id, startTime, signed) ==
    /\ variant = "socketio"
    /\ handled < MaxEvents
    /\ handled' = handled + 1
    /\ req' = request(event, signed, FALSE)
    /\ UNCHANGED <<variant, attendance, mailbox, evalVars, monVars, asyncVars, clientVars>>
    /\ IF shape \in {"noPayload", "noObject"}
       THEN /\ res' = 500 /\ resBody' = NoBody
            /\ responses' = responsesSent(FALSE, TRUE, TRUE)
            /\ UNCHANGED <<ongoingMeetings, journal>>
       ELSE IF event = "meeting.started"
       THEN /\ ongoingMeetings' =
                  put(ongoingMeetings, id,
                      [topic |-> undefined, startTime |-> startTime, hostId |-> "host"])
            /\ res' = 200 /\ resBody' = EventProcessed
            /\ responses' = responsesSent(FALSE, FALSE, TRUE)
            /\ journal' = [journal EXCEPT ![id] = journalStarted(@, undefined, startTime)]
       ELSE /\ res' = 200 /\ resBody' = EventProcessed
            /\ responses' = responsesSent(FALSE, FALSE, TRUE)
            /\ UNCHANGED <<ongoingMeetings, journal>>

\* e-mail service, a correctly signed started or ended request with a
\* malformed body: payload.object.id throws when the payload or the object is
\* missing (lines 410, 426); a missing topic is stored, a missing id not found
EmailMalformed(event, shape, id, startTime) ==
    /\ variant = "email"
    /\ handled < MaxEvents
    /\ handled' = handled + 1
    /\ req' = request(event, TRUE, FALSE)
    /\ UNCHANGED <<variant, attendance, mailbox, evalVars, monVars, asyncVars, clientVars>>
    /\ IF shape \in {"noPayload", "noObject"}
       THEN /\ res' = 500 /\ resBody' = NoBody
            /\ responses' = responsesSent(FALSE, TRUE, TRUE)
            /\ UNCHANGED <<ongoingMeetings, journal>>
       ELSE IF event = "meeting.started"
       THEN /\ ongoingMeetings' =
                  put(ongoingMeetings, id,
                      [topic |-> undefined, startTime |-> startTime,
                       hostEmail |-> undefined])
            /\ res' = 200 /\ resBody' = EventProcessed
            /\ responses' = responsesSent(FALSE, FALSE, TRUE)
            /\ journal' = [journal EXCEPT ![id] = journalStarted(@, undefined, startTime)]
       ELSE /\ res' = 200 /\ resBody' = EventProcessed
            /\ responses' = responsesSent(FALSE, FALSE, TRUE)
            /\ UNCHANGED <<ongoingMeetings, journal>>

\* CSV service, a correctly signed started or ended request with a malformed
\* body: payload.object.id throws when the payload or the object is missing
\* (lines 151, 165); a missing topic is stored, a missing id not found
CsvMalformed(event, shape, id, startTime) ==
    /\ variant = "csv"
    /\ handled < MaxEvents
    /\ handled' = handled + 1
    /\ req' = request(event, TRUE, FALSE)
    /\ UNCHANGED <<variant, attendance, mailbox, evalVars, monVars, asyncVars, clientVars>>
    /\ IF shape \in {"noPayload", "noObject"}
       THEN /\ res' = 500 /\ resBody' = NoBody
            /\ responses' = responsesSent(FALSE, TRUE, TRUE)
            /\ UNCHANGED <<ongoingMeetings, journal>>
       ELSE IF event = "meeting.started"
       THEN /\ ongoingMeetings' =
                  put(ongoingMeetings, id, [topic |-> undefined, startTime |-> startTime])
            /\ res' = 200 /\ resBody' = EventProcessed
            /\ responses' = responsesSent(FALSE, FALSE, TRUE)
            /\ journal' = [journal EXCEPT ![id] = journalStarted(@, undefined, startTime)]
       ELSE /\ res' = 200 /\ resBody' = EventProcessed
            /\ responses' = responsesSent(FALSE, FALSE, TRUE)
            /\ UNCHANGED <<ongoingMeetings, journal>>

---------------------------------------------------------------------------
(* endpoint.url_validation requests of the tracker-based services *)

ValidationEvent == "endpoint.url_validation"

\* req.body.payload.plainToken of the requests
PlainTokens == {"tokA", "tokB"}

\* process.env.ZOOM_WEBHOOK_SECRET_TOKEN
ZOOM_WEBHOOK_SECRET_TOKEN == "secret"

\* crypto.createHmac('sha256', key).update(message).digest('hex')
hmacSha256Hex(key, message) == <<"hmac-sha256", key, message>>

\* the body sent with res.status(200).json({ plainToken, encryptedToken })
validationBody(plainToken) ==
    [plainToken |-> plainToken,
     encryptedToken |-> hmacSha256Hex(ZOOM_WEBHOOK_SECRET_TOKEN, plainToken)]

\* an endpoint.url_validation request as the handlers see it
validationRequest(plainToken, signed) ==
    [event |-> ValidationEvent, signed |-> signed, wellFormed |-> TRUE,
     plainToken |-> plainToken]

\* socket.io service: payload.object is undefined and is not used
SocketIoUrlValidation(plainToken, signed) ==
    /\ variant = "socketio"
    /\ handled < MaxEvents
    /\ handled' = handled + 1
    /\ req' = validationRequest(plainToken, signed)
    /\ res' = 200 /\ resBody' = validationBody(plainToken)
    /\ responses' = responsesSent(TRUE, TRUE, TRUE)
    /\ UNCHANGED <<sessionVars, evalVars, monVars, asyncVars, clientVars>>

\* e-mail service: answered before the signature is verified
EmailUrlValidation(plainToken, signed) ==
    /\ variant = "email"
    /\ handled < MaxEvents
    /\ handled' = handled + 1
    /\ req' = validationRequest(plainToken, signed)
    /\ res' = 200 /\ resBody' = validationBody(plainToken)
    /\ responses' = responsesSent(TRUE, TRUE, TRUE)
    /\ UNCHANGED <<sessionVars, evalVars, monVars, asyncVars, clientVars>>

\* CSV service: answered before the signature is verified
CsvUrlValidation(plainToken, signed) ==
    /\ variant = "csv"
    /\ handled < MaxEvents
    /\ handled' = handled + 1
    /\ req' = validationRequest(plainToken, signed)
    /\ res' = 200 /\ resBody' = validationBody(plainToken)
    /\ responses' = responsesSent(TRUE, TRUE, TRUE)
    /\ UNCHANGED <<sessionVars, evalVars, monVars, asyncVars, clientVars>>

---------------------------------------------------------------------------
(* The tracker-based services *)

Init ==
    /\ variant \in Variants
    /\ ongoingMeetings = [k \in {} |-> NoEval]
    /\ attendance = <<>>
    /\ mailbox = <<>>
    /\ res = 0
    /\ responses = 0
    /\ resBody = NoBody
    /\ req = NoRequest
    /\ journal = [id \in MeetingIds |-> NoJournal]
    /\ handled = 0
    /\ evalIn = NoEval
    /\ evalOut = NoEval
    /\ MonitorOff
    /\ AsyncOff
    /\ ClientOff

Next ==
    \/ \E id \in MeetingIds, topic \in Topics, startTime \in StartTimes,
          signed \in BOOLEAN :
          SocketIoMeetingStarted(id, topic, startTime, signed)
    \/ \E id \in MeetingIds, endTime \in EndTimes, writeFails \in BOOLEAN,
          signed \in BOOLEAN :
          SocketIoMeetingEnded(id, endTime, writeFails, signed)
    \/ \E id \in MeetingIds, topic \in Topics, startTime \in StartTimes,
          hostEmail \in HostEmails :
          EmailMeetingStarted(id, topic, startTime, hostEmail)
    \/ \E id \in MeetingIds, endTime \in EndTimes, writeRejected \in BOOLEAN :
          EmailMeetingEnded(id, endTime, writeRejected)
    \/ \E id \in MeetingIds, topic \in Topics, startTime \in StartTimes :
          CsvMeetingStarted(id, topic, startTime)
    \/ \E id \in MeetingIds, endTime \in EndTimes, writeRejected \in BOOLEAN :
          CsvMeetingEnded(id, endTime, writeRejected)
    \/ \E event \in GatedEvents : EmailUnauthorized(event)
    \/ \E event \in GatedEvents : CsvUnauthorized(event)
    \/ \E signed \in BOOLEAN : SocketIoUnhandledEvent(signed)
    \/ EmailUnhandledEvent
    \/ CsvUnhandledEvent
    \/ \E event \in GatedEvents, shape \in Shapes, id \in MeetingIds,
          startTime \in MalformedStartTimes, signed \in BOOLEAN :
          SocketIoMalformed(event, shape, id, startTime, signed)
    \/ \E event \in GatedEvents, shape \in Shapes, id \in MeetingIds,
          startTime \in MalformedStartTimes :
          EmailMalformed(event, shape, id, startTime)
    \/ \E event \in GatedEvents, shape \in Shapes, id \in MeetingIds,
          startTime \in MalformedStartTimes :
          CsvMalformed(event, shape, id, startTime)
    \/ \E plainToken \in PlainTokens, signed \in BOOLEAN :
          SocketIoUrlValidation(plainToken, signed)
    \/ \E plainToken \in PlainTokens, signed \in BOOLEAN :
          EmailUrlValidation(plainToken, signed)
    \/ \E plainToken \in PlainTokens, signed \in BOOLEAN :
          CsvUrlValidation(plainToken, signed)

Spec == Init /\ [][Next]_vars

---------------------------------------------------------------------------
(* The evaluators on their own: one evaluation of one input *)

EvalVariants == {"socketio", "email", "csv", "rowstore"}

EvalCourses ==
    { [course_name |-> "Algebra 1", teacher_name |-> "Ann",
       scheduled_week_day |-> d, scheduled_time |-> t, rate_pound |-> r] :
         d \in {"Sunday", "Monday", "Saturday"},
         t \in {<<9, 0>>, <<0, 5>>, <<23, 55>>},
         r \in {0, 30, 40} }

EvalStarts ==
    {At(8, 8, 56, 59), At(8, 8, 57, 0), At(8, 8, 57, 1), At(8, 8, 58, 0),
     At(8, 9, 1, 0), At(7, 0, 1, 0), At(11, 12, 0, 0), At(13, 23, 58, 0)}

\* end instant minus start instant, in seconds
EvalDurations == {-600, -45, 0, 59, 40 * 60, 40 * 60 + 30, 50 * 60}

EvalInit ==
    /\ evalIn \in [variant : EvalVariants, course : EvalCourses,
                   startTime : EvalStarts, duration : EvalDurations]
    /\ evalOut = NoEval
    /\ variant = "none"
    /\ ongoingMeetings = [k \in {} |-> NoEval]
    /\ attendance = <<>>
    /\ mailbox = <<>>
    /\ res = 0
    /\ responses = 0
    /\ resBody = NoBody
    /\ req = NoRequest
    /\ journal = [id \in MeetingIds |-> NoJournal]
    /\ handled = 0
    /\ MonitorOff
    /\ AsyncOff
    /\ ClientOff

EvaluateSocketIo ==
    /\ evalIn.variant = "socketio"
    /\ evalOut = NoEval
    /\ evalOut' = evaluateSocketIo(evalIn.course, evalIn.startTime,
                                   evalIn.startTime + evalIn.duration)
    /\ UNCHANGED <<evalIn, trackerVars, monVars, asyncVars, clientVars>>

EvaluateEmail ==
    /\ evalIn.variant = "email"
    /\ evalOut = NoEval
    /\ evalOut' = evaluateEmail(evalIn.course, evalIn.startTime,
                                evalIn.startTime + evalIn.duration)
    /\ UNCHANGED <<evalIn, trackerVars, monVars, asyncVars, clientVars>>

EvaluateCsv ==
    /\ evalIn.variant = "csv"
    /\ evalOut = NoEval
    /\ evalOut' = evaluateCsv(evalIn.course, evalIn.startTime,
                              evalIn.startTime + evalIn.duration)
    /\ UNCHANGED <<evalIn, trackerVars, monVars, asyncVars, clientVars>>

EvaluateRowStore ==
    /\ evalIn.variant = "rowstore"
    /\ evalOut = NoEval
    /\ evalOut' = evaluateRowStore(evalIn.course, evalIn.startTime,
                                   evalIn.startTime + evalIn.duration)
    /\ UNCHANGED <<evalIn, trackerVars, monVars, asyncVars, clientVars>>

\* the start instant moved by whole weeks
WeekShifts == {-1, 1}

\* getScheduledDateTime of the socket.io service, called again for the same
\* course with the start instant moved by k weeks
ShiftedSocketIo(k) ==
    /\ evalIn.variant = "socketio"
    /\ evalOut # NoEval
    /\ "shift" \notin DOMAIN evalOut
    /\ evalOut' = evalOut @@
          [shift |-> k,
           shifted |-> getScheduledDateTime6(evalIn.startTime + k * Week,
                                             evalIn.course.scheduled_week_day,
                                             evalIn.course.scheduled_time)]
    /\ UNCHANGED <<evalIn, trackerVars, monVars, asyncVars, clientVars>>

\* getScheduledDateTime of the e-mail and CSV services, called again for the
\* same course with the start instant moved by k weeks
ShiftedEmail(k) ==
    /\ evalIn.variant \in {"email", "csv"}
    /\ evalOut # NoEval
    /\ "shift" \notin DOMAIN evalOut
    /\ evalOut' = evalOut @@
          [shift |-> k,
           shifted |-> getScheduledDateTime3(evalIn.startTime + k * Week,
                                             evalIn.course.scheduled_week_day,
                                             evalIn.course.scheduled_time)]
    /\ UNCHANGED <<evalIn, trackerVars, monVars, asyncVars, clientVars>>

EvalNext ==
    \/ EvaluateSocketIo
    \/ EvaluateEmail
    \/ EvaluateCsv
    \/ EvaluateRowStore
    \/ \E k \in WeekShifts : ShiftedSocketIo(k)
    \/ \E k \in WeekShifts : ShiftedEmail(k)

SpecEval == EvalInit /\ [][EvalNext]_vars

---------------------------------------------------------------------------
(* Properties of the tracker-based services *)

\* the number of persisted records of a meeting id
RecordsFor(id) ==
    Cardinality({i \in 1..Len(attendance) : attendance[i].meeting_id = id})

\* the step handles a meeting.ended event for the id
EndedStep(id) == journal'[id].ended = journal[id].ended + 1

\* the step handles a meeting.started event for the id
StartedStep(id) == journal'[id].started = journal[id].started + 1

\* C1: the tracker holds a session for a meeting id if and only if a started
\* event for it has been handled and no ended event for it has been handled
\* since.
C1_SessionIffOpen ==
    \A id \in MeetingIds :
        (id \in DOMAIN ongoingMeetings)
            <=> (journal[id].started > 0 /\ journal[id].ended = 0)

\* C2: a step that handles an ended event for an id whose session is open
\* leaves the tracker without a session for that id, whether or not the topic
\* matches a course.
C2_EndedDeletes ==
    [][\A id \in MeetingIds :
          (EndedStep(id) /\ id \in DOMAIN ongoingMeetings)
              => id \notin DOMAIN ongoingMeetings']_vars

\* C3, state part: the session held for an id carries the topic and the start
\* time of the last started event handled for that id.
C3_SessionIsLastStarted ==
    \A id \in DOMAIN ongoingMeetings :
        /\ ongoingMeetings[id].topic = journal[id].topic
        /\ ongoingMeetings[id].startTime = journal[id].startTime

\* C3, step part: a started event leaves a session with its own topic and
\* start time, and a record written for an id is computed from the start time
\* of the last started event of that id.
C3_RecordFromLastStarted ==
    \A id \in MeetingIds :
        /\ StartedStep(id) =>
              /\ id \in DOMAIN ongoingMeetings'
              /\ ongoingMeetings'[id].topic = journal'[id].topic
              /\ ongoingMeetings'[id].startTime = journal'[id].startTime
        /\ (EndedStep(id) /\ Len(attendance') = Len(attendance) + 1) =>
              LET r == attendance'[Len(attendance')]
              IN  /\ r.meeting_id = id
                  /\ r.course_name = journal[id].topic
                  /\ r.date = formatDate(journal[id].startTime)
                  /\ r.entered_time = formatHHmm(journal[id].startTime)
                  /\ r.total_time =
                        computeTotalMinutes(journal[id].startTime, journal'[id].endTime)

\* C3: two started events for one id with no ended event between them leave
\* one session, that of the second event, and a following ended event computes
\* its record from the second start time.
C3_LastWriteWins ==
    [](C3_SessionIsLastStarted) /\ [][C3_RecordFromLastStarted]_vars

\* C3 witness: an id was started twice in a row with different start times, then
\* ended, and its record holds the second start time.
C3_Witness ==
    \E id \in MeetingIds :
        /\ journal[id].run >= 2
        /\ journal[id].prevStartTime # journal[id].startTime
        /\ journal[id].ended = 1
        /\ id \notin DOMAIN ongoingMeetings
        /\ \E i \in 1..Len(attendance) :
              /\ attendance[i].meeting_id = id
              /\ attendance[i].entered_time = formatHHmm(journal[id].startTime)

\* C4: a step that handles an ended event for an id with no open session
\* writes no record, sends no notification and leaves the tracker unchanged.
C4_EndedWithoutSession ==
    [][\A id \in MeetingIds :
          (EndedStep(id) /\ id \notin DOMAIN ongoingMeetings)
              => /\ attendance' = attendance
                 /\ mailbox' = mailbox
                 /\ ongoingMeetings' = ongoingMeetings]_vars

\* C4 witness: an ended event was handled for an id that was never started,
\* while another meeting is open, and nothing was recorded or sent.
C4_Witness ==
    \E id \in MeetingIds :
        /\ journal[id].started = 0
        /\ journal[id].ended > 0
        /\ DOMAIN ongoingMeetings # {}
        /\ attendance = <<>>
        /\ mailbox = <<>>
        /\ res = 200

\* C5: every started event followed by an ended event for the same id, with a
\* topic that is a course name, has produced exactly one record, a duplicate
\* ended event none; so an id never has more records than started events.
C5_OneRecordPerSession ==
    \A id \in MeetingIds :
        /\ RecordsFor(id) = journal[id].matched
        /\ RecordsFor(id) <= journal[id].started

\* C8: for the course {Monday, 09:00, rate 40} a session that starts Monday
\* 08:58 and ends Monday 09:38
IsScenarioC8(r) ==
    /\ r.course_name = "Algebra 1"
    /\ r.scheduled_week_day = "Monday"
    /\ r.scheduled_time = <<9, 0>>
    /\ r.rate_pound = 40
    /\ r.attended_week_day = "Monday"
    /\ r.entered_time = 8 * 60 + 58
    /\ r.finished_time = 9 * 60 + 38
    /\ r.date = formatDate(At(1, 8, 58, 0))

\* C8 as stated: the record of that session has total time 40, status Attended,
\* calculated payment 40.00 and approved payment 40.00.
C8_ScenarioAttended ==
    \A i \in 1..Len(attendance) :
        IsScenarioC8(attendance[i]) =>
            /\ attendance[i].total_time = 40
            /\ attendance[i].status = "Attended"
            /\ attendance[i].calculated_payment = 40 * 100
            /\ attendance[i].approved_payment = 40 * 100

\* C8 as amended: the record of that session has total time 40, status
\* Not attended (08:58 is after the 08:57 grace deadline), calculated payment
\* 40.00 and approved payment 40.00.
C8_ScenarioNotAttended ==
    \A i \in 1..Len(attendance) :
        IsScenarioC8(attendance[i]) =>
            /\ attendance[i].total_time = 40
            /\ attendance[i].status = "Not attended"
            /\ attendance[i].calculated_payment = 40 * 100
            /\ attendance[i].approved_payment = 40 * 100

\* C8 witness: the record of the scenario has been written.
C8_Witness ==
    \E i \in 1..Len(attendance) : IsScenarioC8(attendance[i])

\* C9: a session evaluated as Not attended has had the notifier invoked exactly
\* once, a session evaluated as Attended not at all.
C9_NotifyOncePerLateSession ==
    \A id \in MeetingIds :
        /\ journal[id].status = "Not attended" => journal[id].mails = 1
        /\ journal[id].status = "Attended" => journal[id].mails = 0

\* C24: in every attendance record the total time in minutes is a
\* non-negative integer, whatever start and end instants the events carried.
C24_TotalTimeNonNegative ==
    \A i \in 1..Len(attendance) : attendance[i].total_time >= 0

\* the record is built from the first course of the registry whose name is
\* the topic
FromFirstCourseNamed(r, topic) ==
    \E c \in 1..Len(courses) :
        /\ courses[c].course_name = topic
        /\ \A j \in 1..(c - 1) : courses[j].course_name # topic
        /\ r.teacher_name = courses[c].teacher_name
        /\ r.scheduled_week_day = courses[c].scheduled_week_day
        /\ r.scheduled_time = courses[c].scheduled_time
        /\ r.rate_pound = courses[c].rate_pound

\* C29: when a meeting.ended request finds a session, the course it is matched
\* with is the first course in registry order whose name is exactly the
\* session's topic; when no course name equals the topic (also when one
\* differs only in letter case, or has the topic as a prefix) the handler
\* reports that no course matches and writes no record.
C29_MatchIsFirstExactName ==
    [][\A id \in MeetingIds :
          (EndedStep(id) /\ id \in DOMAIN ongoingMeetings)
             => LET topic == ongoingMeetings[id].topic
                IN  IF \E c \in 1..Len(courses) : courses[c].course_name = topic
                    THEN /\ resBody' # NoMatchingCourse
                         /\ attendance' # attendance
                               => /\ Len(attendance') = Len(attendance) + 1
                                  /\ FromFirstCourseNamed(attendance'[Len(attendance')],
                                                          topic)
                    ELSE /\ resBody' = NoMatchingCourse
                         /\ attendance' = attendance]_vars

\* C29 witness: a session whose topic is the name of the second course of the
\* registry, and a prefix of the name of the first, has been matched with the
\* second course and its record written.
C29_Witness ==
    \E i \in 1..Len(attendance) :
        /\ attendance[i].course_name = courses[2].course_name
        /\ attendance[i].course_name # courses[1].course_name
        /\ attendance[i].teacher_name = courses[2].teacher_name
        /\ attendance[i].teacher_name # courses[1].teacher_name

\* the tracker's entry for the id: the session, or NoEval when it holds none
sessionOf(om, id) == IF id \in DOMAIN om THEN om[id] ELSE NoEval

\* C32: a step changes the session of a meeting id only when it handles a
\* started or ended event for that id; a started event writes no attendance
\* record and sends no notification; and the session of an id is removed only
\* by a step that handles a meeting.ended event for that id.
C32_OnlyOwnEventsTouchSession ==
    [][\A id \in MeetingIds :
          /\ sessionOf(ongoingMeetings', id) # sessionOf(ongoingMeetings, id)
                => (StartedStep(id) \/ EndedStep(id))
          /\ StartedStep(id) => (attendance' = attendance /\ mailbox' = mailbox)
          /\ (id \in DOMAIN ongoingMeetings /\ id \notin DOMAIN ongoingMeetings')
                => EndedStep(id)]_vars

\* C32 witness: two sessions were open, the ended event of one has been
\* handled and has removed it, and the other session is still in the tracker.
C32_Witness ==
    \E id, other \in MeetingIds :
        /\ id # other
        /\ journal[id].started > 0 /\ journal[id].ended > 0
        /\ id \notin DOMAIN ongoingMeetings
        /\ journal[other].started > 0 /\ journal[other].ended = 0
        /\ other \in DOMAIN ongoingMeetings

---------------------------------------------------------------------------
(* Properties of the evaluators *)

\* C6: for a course with a non-negative rate, the approved payment is at most
\* the course's rate_pound (both in fortieths of a pound), in every evaluator.
C6_ApprovedAtMostRate ==
    (evalOut # NoEval /\ evalIn.course.rate_pound >= 0)
        => evalOut.approvedPayment <= evalIn.course.rate_pound * ReferenceMinutes

\* C6 witness: a session longer than 40 minutes of a paid course was evaluated
\* and its approved payment is the rate.
C6_Witness ==
    /\ evalOut # NoEval
    /\ evalIn.course.rate_pound > 0
    /\ evalOut.totalTime > ReferenceMinutes
    /\ evalOut.approvedPayment = evalIn.course.rate_pound * ReferenceMinutes

\* C7: the status is Attended if and only if the start is at or before the
\* scheduled occurrence minus 3 minutes, equality included.
C7_AttendedIffByGraceDeadline ==
    (evalOut # NoEval /\ evalIn.variant # "rowstore")
        => (evalOut.status = "Attended"
               <=> evalIn.startTime <= evalOut.scheduledDateTime - GraceMinutes * 60)

\* C23: the total time equals the difference end minus start in minutes
\* rounded to the nearest minute, in every evaluator.
C23_TotalTimeIsRounded ==
    evalOut # NoEval
        => evalOut.totalTime = (evalIn.duration * 2 + 60) \div 120

\* C25: the scheduled occurrence is never more than 6 days, as an exact
\* duration, away from the start instant, in either direction.
C25_OccurrenceWithinSixDays ==
    (evalOut # NoEval /\ evalIn.variant # "rowstore")
        => /\ evalOut.scheduledDateTime - evalIn.startTime <= SixDays * Day
           /\ evalIn.startTime - evalOut.scheduledDateTime <= SixDays * Day

OccurrenceInWeekOf(t, weekDay, time) ==
    (t \div Week) * Week + weekDayNumbers[weekDay] * Day + (time[1] * 60 + time[2]) * 60

\* C34: the scheduled occurrence falls on the course's weekday at the course's
\* time of day, and is the occurrence of that weekday in the calendar week of
\* the start instant, or that occurrence moved by exactly 7 days either way.
C34_OccurrenceOnCourseWeekday ==
    (evalOut # NoEval /\ evalIn.variant # "rowstore")
        => LET c == evalIn.course
               s == evalOut.scheduledDateTime
           IN  /\ (s \div Day) % 7 = weekDayNumbers[c.scheduled_week_day]
               /\ s % Day = (c.scheduled_time[1] * 60 + c.scheduled_time[2]) * 60
               /\ s - OccurrenceInWeekOf(evalIn.startTime, c.scheduled_week_day,
                                         c.scheduled_time) \in {0, Week, -Week}

\* C34 witness: for a start on a Saturday and a course on Sunday the
\* occurrence returned is the one of the following week.
C34_Witness ==
    /\ evalOut # NoEval
    /\ evalIn.variant \in {"email", "csv"}
    /\ evalOut.scheduledDateTime =
          OccurrenceInWeekOf(evalIn.startTime, evalIn.course.scheduled_week_day,
                             evalIn.course.scheduled_time) + Week

C36_EvaluatorsAgreeOnStatus ==
    evalOut # NoEval
        => /\ evalIn.variant = "socketio"
                 => evalOut.status =
                       statusEmail(evalIn.startTime, evalOut.scheduledDateTime)
           /\ evalIn.variant = "email"
                 => evalOut.status =
                       statusSocketIo(evalIn.startTime, evalOut.scheduledDateTime)

\* C28: the calculated payment is rate_pound * total_time / 40 and the approved
\* payment is the smaller of the calculated payment and rate_pound (all in
\* fortieths of a pound): the rate when the total time is at least 40 minutes,
\* the calculated payment when it is at most 40 minutes.
C28_PaymentFormula ==
    evalOut # NoEval
        => LET rate == evalIn.course.rate_pound
               total == evalOut.totalTime
           IN  /\ evalIn.variant # "rowstore" => evalOut.calculatedPayment = rate * total
               /\ evalOut.approvedPayment =
                     IF rate * total <= rate * ReferenceMinutes
                     THEN rate * total ELSE rate * ReferenceMinutes
               /\ total >= ReferenceMinutes
                     => evalOut.approvedPayment = rate * ReferenceMinutes
               /\ total <= ReferenceMinutes
                     => evalOut.approvedPayment = rate * total

\* C28 witness: for a session of more than 40 minutes of a paid course the
\* calculated payment exceeds the rate and the approved payment is the rate.
C28_Witness ==
    /\ evalOut # NoEval
    /\ evalIn.variant # "rowstore"
    /\ evalIn.course.rate_pound > 0
    /\ evalOut.totalTime > ReferenceMinutes
    /\ evalOut.calculatedPayment > evalIn.course.rate_pound * ReferenceMinutes
    /\ evalOut.approvedPayment < evalOut.calculatedPayment

---------------------------------------------------------------------------
(* The monitor services: src/unnamed/part_002 ("cancel") and the last script
   of src/index.html ("nocancel").  A day is cut into slots; slot s begins at
   SlotStart[s] minutes after midnight and the timers of that instant fire
   when the slot is entered.  Under SpecMonitor a meeting.started event
   arrives when the meeting starts: its start_time is the current slot. *)

MaxDay == 2

MaxMonitorRows == 1

SweepHour == 4

SlotStart == <<0, 3 * 60, SweepHour * 60, 9 * 60>>

NSlots == Len(SlotStart)

MonVariants == {"cancel", "nocancel"}

\* courses.json of the monitor services
monCourses ==
    << [topic |-> "Algebra 1", week_day |-> "Monday", scheduled_time |-> <<9, 0>>,
        host_name |-> "Ann", rate_pound |-> 40],
       [topic |-> "Dawn Yoga", week_day |-> "Tuesday", scheduled_time |-> <<3, 0>>,
        host_name |-> "Bob", rate_pound |-> 30],
       [topic |-> "Chess", week_day |-> "Tuesday", scheduled_time |-> <<9, 0>>,
        host_name |-> "Cy", rate_pound |-> 0] >>

RowIds == {"m1", "m2"}

MonTopics == {"Algebra 1", "Dawn Yoga", "Chess", "Other"}

\* the last line of a file that ends with a newline: split('\n') yields ''
EmptyLine == [empty |-> TRUE]

\* a field of a row that holds the empty string
Blank == <<>>

\* a field of a row that holds the text of a number
Cell(n) == <<n>>

\* format(new Date(), 'EEEE'): day 0 is a Monday
weekdayOf(day) == WeekDayNames[((day + 1) % 7) + 1]

\* the slot that begins at the course's scheduled time
slotOf(course) ==
    CHOOSE s \in 1..NSlots :
        SlotStart[s] = course.scheduled_time[1] * 60 + course.scheduled_time[2]

\* loadTodaysCourses: the courses whose week_day is today's weekday
loadTodaysCourses(day) ==
    SelectSeq(monCourses, LAMBDA c : c.week_day = weekdayOf(day))

\* schedule.scheduleJob({hour, minute, tz}, ...) for each of today's courses:
\* one recurrence rule per course, which fires every day at that time
scheduleChecks(todays) == todays

\* the timer callbacks that fire when the slot is entered: the 04:00 sweep
\* and every live job whose rule names that time of day
dueAt(slot, liveJobs) ==
    (IF SlotStart[slot] = SweepHour * 60 THEN <<[kind |-> "sweep"]>> ELSE <<>>)
    \o [i \in 1..Len(SelectSeq(liveJobs, LAMBDA c : slotOf(c) = slot)) |->
           [kind |-> "check",
            course |-> SelectSeq(liveJobs, LAMBDA c : slotOf(c) = slot)[i]]]

\* fs.appendFileSync(csvFilePath, row + '\n')
appendRow(lines, row) ==
    IF Len(lines) > 0 /\ lines[Len(lines)] = EmptyLine
    THEN SubSeq(lines, 1, Len(lines) - 1) \o <<row, EmptyLine>>
    ELSE lines \o <<row, EmptyLine>>

\* the number of rows in the file
RowCount == Cardinality({i \in 1..Len(csvLines) : csvLines[i] # EmptyLine})

MonInit ==
    /\ monVariant \in MonVariants
    /\ boot \in [day : {0}, slot : 1..NSlots]
    /\ clock = boot
    /\ todaysCourses = loadTodaysCourses(boot.day)
    /\ jobs = scheduleChecks(loadTodaysCourses(boot.day))
    /\ due = <<>>
    /\ csvLines = <<EmptyLine>>
    /\ sent = <<>>
    /\ variant = "none"
    /\ ongoingMeetings = [k \in {} |-> NoEval]
    /\ attendance = <<>>
    /\ mailbox = <<>>
    /\ res = 0
    /\ responses = 0
    /\ resBody = NoBody
    /\ req = NoRequest
    /\ journal = [id \in MeetingIds |-> NoJournal]
    /\ handled = 0
    /\ evalIn = NoEval
    /\ evalOut = NoEval
    /\ AsyncOff
    /\ ClientOff

\* Time passes to the next slot, once every callback of this instant has run
Tick ==
    /\ due = <<>>
    /\ clock.slot < NSlots \/ clock.day < MaxDay
    /\ LET next == IF clock.slot < NSlots
                   THEN [day |-> clock.day, slot |-> clock.slot + 1]
                   ELSE [day |-> clock.day + 1, slot |-> 1]
       IN  /\ clock' = next
           /\ due' = dueAt(next.slot, jobs)
    /\ UNCHANGED <<monVariant, boot, todaysCourses, jobs, csvLines, sent,
                   trackerVars, evalVars, asyncVars, clientVars>>

\* part_002: the daily 04:00 job cancels the jobs, reloads and re-schedules
CancelDailyScheduleJob ==
    /\ monVariant = "cancel"
    /\ due # <<>> /\ Head(due).kind = "sweep"
    /\ todaysCourses' = loadTodaysCourses(clock.day)
    /\ jobs' = scheduleChecks(loadTodaysCourses(clock.day))
    /\ due' = Tail(due)
    /\ UNCHANGED <<monVariant, clock, boot, csvLines, sent, trackerVars, evalVars, asyncVars, clientVars>>

\* index.html: the daily 04:00 job reloads and schedules, cancelling nothing
NoCancelDailyScheduleJob ==
    /\ monVariant = "nocancel"
    /\ due # <<>> /\ Head(due).kind = "sweep"
    /\ todaysCourses' = loadTodaysCourses(clock.day)
    /\ jobs' = jobs \o scheduleChecks(loadTodaysCourses(clock.day))
    /\ due' = Tail(due)
    /\ UNCHANGED <<monVariant, clock, boot, csvLines, sent, trackerVars, evalVars, asyncVars, clientVars>>

\* Mutant: the check that has fired removes its course from the scheduled jobs
CancelCheckMeetingAttendance_oneShot ==
    /\ monVariant = "cancel"
    /\ due # <<>> /\ Head(due).kind = "check"
    /\ LET course == Head(due).course
           attendanceData ==
               SelectSeq(csvLines, LAMBDA l : l # EmptyLine)
           meetingExists ==
               \E i \in 1..Len(attendanceData) : attendanceData[i].topic = course.topic
       IN  /\ sent' = IF meetingExists THEN sent
                      ELSE Append(sent, [topic |-> course.topic, day |-> clock.day])
           /\ jobs' = SelectSeq(jobs, LAMBDA c : c # course)
    /\ due' = Tail(due)
    /\ UNCHANGED <<monVariant, clock, boot, todaysCourses, csvLines,
                   trackerVars, evalVars, asyncVars, clientVars>>

\* part_002 checkMeetingAttendance: incomplete lines are filtered out
CancelCheckMeetingAttendance ==
    /\ monVariant = "cancel"
    /\ due # <<>> /\ Head(due).kind = "check"
    /\ LET course == Head(due).course
           attendanceData ==
               SelectSeq(csvLines, LAMBDA l : l # EmptyLine)
           meetingExists ==
               \E i \in 1..Len(attendanceData) : attendanceData[i].topic = course.topic
       IN  sent' = IF meetingExists THEN sent
                   ELSE Append(sent, [topic |-> course.topic, day |-> clock.day])
    /\ due' = Tail(due)
    /\ UNCHANGED <<monVariant, clock, boot, todaysCourses, jobs, csvLines,
                   trackerVars, evalVars, asyncVars, clientVars>>

\* index.html checkMeetingAttendance: topic.trim() throws on a line without a
\* comma, the catch logs the error and no mail is sent
NoCancelCheckMeetingAttendance ==
    /\ monVariant = "nocancel"
    /\ due # <<>> /\ Head(due).kind = "check"
    /\ LET course == Head(due).course
           throws == \E i \in 1..Len(csvLines) : csvLines[i] = EmptyLine
           meetingExists ==
               \E i \in 1..Len(csvLines) : csvLines[i].topic = course.topic
       IN  sent' = IF throws THEN sent
                   ELSE IF meetingExists THEN sent
                   ELSE Append(sent, [topic |-> course.topic, day |-> clock.day])
    /\ due' = Tail(due)
    /\ UNCHANGED <<monVariant, clock, boot, todaysCourses, jobs, csvLines,
                   trackerVars, evalVars, asyncVars, clientVars>>

\* part_002 meeting.started: the row is appended with empty end, total time,
\* host name, rate and payment
CancelMeetingStarted(id, topic, startTime) ==
    /\ monVariant = "cancel"
    /\ due = <<>>
    /\ RowCount < MaxMonitorRows
    /\ handled' = handled + 1
    /\ req' = request("meeting.started", TRUE, TRUE)
    /\ csvLines' = appendRow(csvLines,
                             [id |-> id, topic |-> topic, host_id |-> "host",
                              start_time |-> startTime, end_time |-> Blank,
                              total_time |-> Blank, host_name |-> "",
                              rate_pound |-> Blank, payment |-> Blank])
    /\ res' = 200 /\ resBody' = NoBody
    /\ responses' = responsesSent(TRUE, FALSE, FALSE)
    /\ UNCHANGED <<monVariant, clock, boot, todaysCourses, jobs, due, sent,
                   sessionVars, evalVars, asyncVars, clientVars>>

\* index.html meeting.started: the row is appended with an empty end time
NoCancelMeetingStarted(id, topic, startTime) ==
    /\ monVariant = "nocancel"
    /\ due = <<>>
    /\ RowCount < MaxMonitorRows
    /\ handled' = handled + 1
    /\ req' = request("meeting.started", TRUE, TRUE)
    /\ csvLines' = appendRow(csvLines,
                             [id |-> id, topic |-> topic, host_id |-> "host",
                              start_time |-> startTime, end_time |-> Blank])
    /\ res' = 200 /\ resBody' = NoBody
    /\ responses' = responsesSent(TRUE, FALSE, FALSE)
    /\ UNCHANGED <<monVariant, clock, boot, todaysCourses, jobs, due, sent,
                   sessionVars, evalVars, asyncVars, clientVars>>

MonNext ==
    \/ Tick
    \/ CancelDailyScheduleJob
    \/ NoCancelDailyScheduleJob
    \/ CancelCheckMeetingAttendance
    \/ NoCancelCheckMeetingAttendance
    \/ \E id \in RowIds, topic \in MonTopics : CancelMeetingStarted(id, topic, clock)
    \/ \E id \in RowIds, topic \in MonTopics : NoCancelMeetingStarted(id, topic, clock)

SpecMonitor == MonInit /\ [][MonNext]_vars

---------------------------------------------------------------------------
(* The webhook of the monitor services on its own: requests with any payload,
   while no timer fires *)

MaxRowStoreEvents == 3

\* payload.start_time of the requests
RowStartTimes == {[day |-> 0, slot |-> 1], [day |-> 0, slot |-> 4]}

\* payload.end_time of a meeting.ended request, in minutes after its start
RowDurations == {40, 60}

\* the instant at which a slot of a day begins
instantOf(c) == At(c.day + 1, 0, SlotStart[c.slot], 0)

\* getCourseDetailsByTopic: the first course with the topic, {} if none
getCourseDetailsByTopic(topic) ==
    IF \E i \in 1..Len(monCourses) : monCourses[i].topic = topic
    THEN monCourses[CHOOSE i \in 1..Len(monCourses) :
                       /\ monCourses[i].topic = topic
                       /\ \A j \in 1..(i - 1) : monCourses[j].topic # topic]
    ELSE [none |-> TRUE]

\* the line as updateMeetingDetailsOnEnd maps it: the open row of the meeting
\* id and start time gets the end time, the total time, the course's host
\* name and rate ('' when missing or 0) and the payment
closeRow(line, meetingId, startTime, endTime) ==
    IF line # EmptyLine /\ line.id = meetingId /\ line.start_time = startTime
       /\ line.end_time = Blank
    THEN LET courseDetails == getCourseDetailsByTopic(line.topic)
             found == "topic" \in DOMAIN courseDetails
             totalTime == calculateTotalTime(instantOf(startTime), endTime)
             ratePound == IF found THEN courseDetails.rate_pound ELSE 0
         IN  [line EXCEPT !.end_time = Cell(endTime),
                          !.total_time = Cell(totalTime),
                          !.host_name = IF found THEN courseDetails.host_name ELSE "",
                          !.rate_pound = IF ratePound = 0 THEN Blank ELSE Cell(ratePound),
                          !.payment = Cell(toFixed2(paymentRowStore40(ratePound, totalTime)))]
    ELSE line

\* part_002 meeting.ended: every line is mapped and the file is written back
CancelMeetingEnded(id, startTime, endTime) ==
    /\ monVariant = "cancel"
    /\ due = <<>>
    /\ handled < MaxRowStoreEvents
    /\ handled' = handled + 1
    /\ req' = request("meeting.ended", TRUE, TRUE)
    /\ csvLines' = [i \in 1..Len(csvLines) |-> closeRow(csvLines[i], id, startTime, endTime)]
    /\ res' = 200 /\ resBody' = NoBody
    /\ responses' = responsesSent(TRUE, FALSE, FALSE)
    /\ UNCHANGED <<monVariant, clock, boot, todaysCourses, jobs, due, sent,
                   sessionVars, evalVars, asyncVars, clientVars>>

\* index.html meeting.ended: the open row of the meeting id and start time
\* gets the end time
NoCancelMeetingEnded(id, startTime, endTime) ==
    /\ monVariant = "nocancel"
    /\ due = <<>>
    /\ handled < MaxRowStoreEvents
    /\ handled' = handled + 1
    /\ req' = request("meeting.ended", TRUE, TRUE)
    /\ csvLines' =
          [i \in 1..Len(csvLines) |->
              IF csvLines[i] # EmptyLine /\ csvLines[i].id = id
                 /\ csvLines[i].start_time = startTime /\ csvLines[i].end_time = Blank
              THEN [csvLines[i] EXCEPT !.end_time = Cell(endTime)]
              ELSE csvLines[i]]
    /\ res' = 200 /\ resBody' = NoBody
    /\ responses' = responsesSent(TRUE, FALSE, FALSE)
    /\ UNCHANGED <<monVariant, clock, boot, todaysCourses, jobs, due, sent,
                   sessionVars, evalVars, asyncVars, clientVars>>

\* the request is one the handler rejects: its signature is wrong, or its
\* payload.object or a required field is missing, or its event is neither
\* meeting.started nor meeting.ended
isRejected(event, signed, wellFormed) ==
    ~signed \/ ~wellFormed \/ event \notin GatedEvents

\* part_002: each of those requests is answered with 400
CancelRejected(event, signed, wellFormed) ==
    /\ monVariant = "cancel"
    /\ due = <<>>
    /\ handled < MaxRowStoreEvents
    /\ isRejected(event, signed, wellFormed)
    /\ handled' = handled + 1
    /\ req' = request(event, signed, wellFormed)
    /\ res' = 400 /\ resBody' = NoBody
    /\ responses' = responsesSent(TRUE, ~signed \/ ~wellFormed, FALSE)
    /\ UNCHANGED <<monVars, sessionVars, evalVars, asyncVars, clientVars>>

\* index.html: each of those requests is answered with 400
NoCancelRejected(event, signed, wellFormed) ==
    /\ monVariant = "nocancel"
    /\ due = <<>>
    /\ handled < MaxRowStoreEvents
    /\ isRejected(event, signed, wellFormed)
    /\ handled' = handled + 1
    /\ req' = request(event, signed, wellFormed)
    /\ res' = 400 /\ resBody' = NoBody
    /\ responses' = responsesSent(TRUE, ~signed \/ ~wellFormed, FALSE)
    /\ UNCHANGED <<monVars, sessionVars, evalVars, asyncVars, clientVars>>

\* part_002 has no branch for endpoint.url_validation: the request is answered
\* 400 'Invalid request' when its signature is wrong and 400 'Invalid payload'
\* otherwise, because its payload has no object
CancelUrlValidation(plainToken, signed) ==
    /\ monVariant = "cancel"
    /\ due = <<>>
    /\ handled < MaxRowStoreEvents
    /\ handled' = handled + 1
    /\ req' = validationRequest(plainToken, signed)
    /\ res' = 400 /\ resBody' = NoBody
    /\ responses' = responsesSent(TRUE, TRUE, FALSE)
    /\ UNCHANGED <<monVars, sessionVars, evalVars, asyncVars, clientVars>>

\* index.html has no branch for it either
NoCancelUrlValidation(plainToken, signed) ==
    /\ monVariant = "nocancel"
    /\ due = <<>>
    /\ handled < MaxRowStoreEvents
    /\ handled' = handled + 1
    /\ req' = validationRequest(plainToken, signed)
    /\ res' = 400 /\ resBody' = NoBody
    /\ responses' = responsesSent(TRUE, TRUE, FALSE)
    /\ UNCHANGED <<monVars, sessionVars, evalVars, asyncVars, clientVars>>

RowStoreInit == MonInit /\ boot.slot = 1

RowStoreNext ==
    \/ \E id \in RowIds, topic \in MonTopics, startTime \in RowStartTimes :
          CancelMeetingStarted(id, topic, startTime)
    \/ \E id \in RowIds, topic \in MonTopics, startTime \in RowStartTimes :
          NoCancelMeetingStarted(id, topic, startTime)
    \/ \E id \in RowIds, startTime \in RowStartTimes, d \in RowDurations :
          CancelMeetingEnded(id, startTime, instantOf(startTime) + d * 60)
    \/ \E id \in RowIds, startTime \in RowStartTimes, d \in RowDurations :
          NoCancelMeetingEnded(id, startTime, instantOf(startTime) + d * 60)
    \/ \E event \in GatedEvents \cup {OtherEvent}, signed, wellFormed \in BOOLEAN :
          CancelRejected(event, signed, wellFormed)
    \/ \E event \in GatedEvents \cup {OtherEvent}, signed, wellFormed \in BOOLEAN :
          NoCancelRejected(event, signed, wellFormed)
    \/ \E plainToken \in PlainTokens, signed \in BOOLEAN :
          CancelUrlValidation(plainToken, signed)
    \/ \E plainToken \in PlainTokens, signed \in BOOLEAN :
          NoCancelUrlValidation(plainToken, signed)

SpecRowStore == RowStoreInit /\ [][RowStoreNext]_vars

---------------------------------------------------------------------------
(* Properties of the monitor services *)

\* the number of escalations sent for the topic on the day
Escalations(topic, day) ==
    Cardinality({i \in 1..Len(sent) : sent[i].topic = topic /\ sent[i].day = day})

\* a meeting with the course's topic started on the day before the check time
StartedByCheckTime(course, day) ==
    \E i \in 1..Len(csvLines) :
        /\ csvLines[i] # EmptyLine
        /\ csvLines[i].topic = course.topic
        /\ csvLines[i].start_time.day = day
        /\ csvLines[i].start_time.slot < slotOf(course)

\* the server was already running at the course's check time of the day
RunningAtCheckTime(course, day) ==
    boot.day < day \/ boot.slot < slotOf(course)

\* the day's last slot has been entered and its callbacks have run
DayDone == clock.slot = NSlots /\ due = <<>>

\* C10: when a day is over, every course scheduled that day whose check time the
\* server was running at, and for which no meeting had started by the check
\* time, has had exactly one escalation that day.
C10_OneEscalationPerCoursePerDay ==
    DayDone =>
        \A i \in 1..Len(monCourses) :
            (/\ monCourses[i].week_day = weekdayOf(clock.day)
             /\ RunningAtCheckTime(monCourses[i], clock.day)
             /\ ~StartedByCheckTime(monCourses[i], clock.day))
                => Escalations(monCourses[i].topic, clock.day) = 1

\* no two pending checks are for the same course
NoDuplicateJobs ==
    \A i, j \in 1..Len(jobs) : i # j => jobs[i].topic # jobs[j].topic

\* every pending check is for a course of the course list loaded today
JobsAreTodays ==
    \A i \in 1..Len(jobs) :
        /\ jobs[i].week_day = weekdayOf(clock.day)
        /\ \E k \in 1..Len(todaysCourses) : todaysCourses[k] = jobs[i]

\* the slot that begins at the sweep hour
SweepSlot == CHOOSE s \in 1..NSlots : SlotStart[s] = SweepHour * 60

\* the sweep hour of the current day has passed and no sweep is waiting to run:
\* the pending checks are those of today's sweep, or of a start after it
SweepDone ==
    /\ clock.slot >= SweepSlot
    /\ due = <<>> \/ Head(due).kind # "sweep"

\* C11: once the sweep of the day has run (or the server has started that day,
\* after the sweep hour), the pending checks hold at most one check per
\* course of today's course list and none for a course of an earlier day.
C11_PendingChecksAreTodays ==
    SweepDone => (NoDuplicateJobs /\ JobsAreTodays)

\* a meeting with the topic has started on the current day
StartedToday(topic) ==
    \E i \in 1..Len(csvLines) :
        /\ csvLines[i] # EmptyLine
        /\ csvLines[i].topic = topic
        /\ csvLines[i].start_time.day = clock.day

\* the step runs the check that is first in the queue of due callbacks
CheckStep == due # <<>> /\ Head(due).kind = "check" /\ due' = Tail(due)

\* C12: a check that fires sends nothing if a meeting with the course's topic
\* has started on the current day, and otherwise sends one notification for
\* the course; a row left from an earlier day does not confirm the check.
C12_CheckConfirmsIffStartedToday ==
    [][CheckStep =>
          IF StartedToday(Head(due).course.topic)
          THEN sent' = sent
          ELSE sent' = Append(sent, [topic |-> Head(due).course.topic,
                                     day |-> clock.day])]_vars

\* C30: a check for a course fires only on a day whose weekday is the
\* course's configured weekday; a check scheduled after the course's time of
\* the day has passed does not fire on the following day.
C30_CheckFiresOnCourseDay ==
    [][CheckStep => Head(due).course.week_day = weekdayOf(clock.day)]_vars

\* C33: a check only reads: whether it confirms or escalates, the step leaves
\* the record store file, the list of today's courses and the scheduled jobs
\* unchanged.
C33_CheckOnlyReads ==
    [][CheckStep => UNCHANGED <<csvLines, todaysCourses, jobs>>]_vars

\* C33 witness: a check has escalated while the record store holds a row and
\* jobs are scheduled.
C33_Witness ==
    /\ sent # <<>>
    /\ RowCount > 0
    /\ jobs # <<>>
    /\ todaysCourses # <<>>

---------------------------------------------------------------------------
(* The asynchronous CSV services: src/unnamed/part_000 ("part_000") and the
   first script of src/index.html, lines 179-377 ("index.html").  A started
   event appends a row, an ended event reads the whole file and writes it
   back; both go through promises and streams, so the handler returns while
   the file operation is still in flight. *)

MaxAsyncEvents == 3

\* the staleness window of index.html, in milliseconds
StalenessWindow == 300000

\* Date.now() - timestamp * 1000 of the requests, in milliseconds
Ages == {0, StalenessWindow, StalenessWindow + 1, -(StalenessWindow + 1)}

AsyncVariants == {"part_000", "index.html"}

AsyncIds == {"m1", "m2"}

\* payload.object.end_time of the meeting.ended requests
AsyncEndTimes == {"09:40", "09:45"}

\* the property of a parsed record that the ended handler compares with the
\* meeting id: record.id in part_000, record.ID in index.html
lookupKey == [part_000 |-> "id", index_html |-> "ID"]

\* csv-parser names the properties of a record after the titles of the header
\* line, which the writers of both services spell ID, Topic, ..., End Time
parsedRecord(row) == [ID |-> row.ID, Topic |-> row.Topic, EndTime |-> row.EndTime]

\* record[key], undefined when the record has no such property
property(record, key) ==
    IF key \in DOMAIN record THEN record[key] ELSE undefined

\* records.findIndex((record) => record.id === meetingId), 0 for -1
findIndex(records, key, meetingId) ==
    IF \E i \in 1..Len(records) : property(records[i], key) = meetingId
    THEN CHOOSE i \in 1..Len(records) :
            /\ property(records[i], key) = meetingId
            /\ \A j \in 1..(i - 1) : property(records[j], key) # meetingId
    ELSE 0

\* inFlight without its k-th operation
removeAt(ops, k) == SubSeq(ops, 1, k - 1) \o SubSeq(ops, k + 1, Len(ops))

AsyncInit ==
    /\ asyncVariant \in AsyncVariants
    /\ csvFile \in [exists : BOOLEAN, rows : {<<>>}]
    /\ asyncVariant = "index.html" => csvFile.exists
    /\ inFlight = <<>>
    /\ accepted = {}
    /\ closing = {}
    /\ variant = "none"
    /\ ongoingMeetings = [k \in {} |-> NoEval]
    /\ attendance = <<>>
    /\ mailbox = <<>>
    /\ res = 0
    /\ responses = 0
    /\ resBody = NoBody
    /\ req = NoRequest
    /\ journal = [id \in MeetingIds |-> NoJournal]
    /\ handled = 0
    /\ evalIn = NoEval
    /\ evalOut = NoEval
    /\ MonitorOff
    /\ ClientOff

\* |x|
abs(x) == IF x >= 0 THEN x ELSE -x

\* Mutant: the age of the request is not looked at
tooOld_never(age) == FALSE

\* index.html: Math.abs(Date.now() - timestamp * 1000) > 300000
tooOld(age) == abs(age) > StalenessWindow

\* verifyZoomRequest, for a request that carries both headers: whether next()
\* is called.  part_000 compares the signature only; index.html first rejects
\* a timestamp that is too far from the current time.
verifyZoomRequest(signed, age) ==
    IF asyncVariant = "index.html" THEN ~tooOld(age) /\ signed ELSE signed

\* a request as verifyZoomRequest and the handler see it
asyncRequest(event, signed, age) ==
    [event |-> event, signed |-> signed, wellFormed |-> TRUE, age |-> age]

\* verifyZoomRequest answers 401 and the handler does not run
AsyncUnauthorized(event, signed, age) ==
    /\ asyncVariant \in AsyncVariants
    /\ handled < MaxAsyncEvents
    /\ ~verifyZoomRequest(signed, age)
    /\ handled' = handled + 1
    /\ req' = asyncRequest(event, signed, age)
    /\ res' = 401 /\ resBody' = NoBody
    /\ responses' = responsesSent(TRUE, TRUE, TRUE)
    /\ UNCHANGED <<sessionVars, evalVars, monVars, asyncVars, clientVars>>

\* an event that is neither meeting.started nor meeting.ended
AsyncUnhandledEvent(age) ==
    /\ asyncVariant \in AsyncVariants
    /\ handled < MaxAsyncEvents
    /\ verifyZoomRequest(TRUE, age)
    /\ handled' = handled + 1
    /\ req' = asyncRequest(OtherEvent, TRUE, age)
    /\ res' = 200 /\ resBody' = NoBody
    /\ responses' = responsesSent(FALSE, FALSE, TRUE)
    /\ UNCHANGED <<sessionVars, evalVars, monVars, asyncVars, clientVars>>

\* endpoint.url_validation: index.html answers it before verifyZoomRequest;
\* part_000 has no branch for it, the request goes through verifyZoomRequest
\* and is then answered with res.status(200).send()
AsyncUrlValidation(plainToken, signed, age) ==
    /\ asyncVariant \in AsyncVariants
    /\ handled < MaxAsyncEvents
    /\ handled' = handled + 1
    /\ req' = validationRequest(plainToken, signed) @@ [age |-> age]
    /\ IF asyncVariant = "index.html"
       THEN res' = 200 /\ resBody' = validationBody(plainToken) /\ responses' = responsesSent(TRUE, TRUE, TRUE)
       ELSE IF verifyZoomRequest(signed, age)
       THEN res' = 200 /\ resBody' = NoBody /\ responses' = responsesSent(FALSE, FALSE, TRUE)
       ELSE res' = 401 /\ resBody' = NoBody /\ responses' = responsesSent(TRUE, TRUE, TRUE)
    /\ UNCHANGED <<sessionVars, evalVars, monVars, asyncVars, clientVars>>

\* handleMeetingStarted and appendToCSV: the write is started and the handler
\* answers 200.  part_000 appends if the file exists at this moment and
\* otherwise writes a new file; index.html always appends.
AsyncMeetingStarted(id, age) ==
    /\ asyncVariant \in AsyncVariants
    /\ handled < MaxAsyncEvents
    /\ verifyZoomRequest(TRUE, age)
    /\ handled' = handled + 1
    /\ req' = asyncRequest("meeting.started", TRUE, age)
    /\ LET append == IF asyncVariant = "part_000" THEN csvFile.exists ELSE TRUE
       IN  inFlight' = Append(inFlight,
                              [kind |-> "write", append |-> append,
                               records |-> <<[ID |-> id, Topic |-> "Algebra 1",
                                              EndTime |-> ""]>>])
    /\ accepted' = accepted \cup {id}
    /\ res' = 200 /\ resBody' = NoBody
    /\ responses' = responsesSent(FALSE, FALSE, TRUE)
    /\ UNCHANGED <<sessionVars, evalVars, monVars, clientVars, asyncVariant, csvFile, closing>>

\* handleMeetingEnded and updateCSV: the read stream is opened if the file
\* exists, and the handler answers 200
AsyncMeetingEnded(id, age, endTime) ==
    /\ asyncVariant \in AsyncVariants
    /\ handled < MaxAsyncEvents
    /\ verifyZoomRequest(TRUE, age)
    /\ handled' = handled + 1
    /\ req' = asyncRequest("meeting.ended", TRUE, age)
    /\ inFlight' = IF csvFile.exists
                   THEN Append(inFlight, [kind |-> "read", meetingId |-> id,
                                          endTime |-> endTime])
                   ELSE inFlight
    /\ res' = 200 /\ resBody' = NoBody
    /\ responses' = responsesSent(FALSE, FALSE, TRUE)
    /\ closing' = IF id \in accepted THEN closing \cup {id} ELSE closing
    /\ UNCHANGED <<sessionVars, evalVars, monVars, clientVars, asyncVariant, csvFile, accepted>>

\* the 'end' callback of a read stream: the records are those of the file as
\* it is now; if one has the meeting id its end time is set and the rewrite
\* of the whole file is started
ReadEnds(k) ==
    /\ k \in 1..Len(inFlight)
    /\ inFlight[k].kind = "read"
    /\ LET records == [i \in 1..Len(csvFile.rows) |-> parsedRecord(csvFile.rows[i])]
           key == IF asyncVariant = "part_000" THEN lookupKey.part_000
                  ELSE lookupKey.index_html
           index == findIndex(records, key, inFlight[k].meetingId)
       IN  inFlight' =
              IF index = 0 THEN removeAt(inFlight, k)
              ELSE [inFlight EXCEPT
                       ![k] = [kind |-> "write", append |-> FALSE,
                               meetingId |-> inFlight[k].meetingId,
                               records |-> [records EXCEPT
                                               ![index].EndTime = inFlight[k].endTime]]]
    /\ UNCHANGED <<trackerVars, evalVars, monVars, clientVars, asyncVariant, csvFile, accepted,
                   closing>>

\* a write of csv-writer completes: with append the records are added at the
\* end of the file, without it the file is replaced by the header line and
\* the records
WriteCompletes(k) ==
    /\ k \in 1..Len(inFlight)
    /\ inFlight[k].kind = "write"
    /\ csvFile' = [exists |-> TRUE,
                   rows |-> IF inFlight[k].append
                            THEN csvFile.rows \o inFlight[k].records
                            ELSE inFlight[k].records]
    /\ inFlight' = removeAt(inFlight, k)
    /\ UNCHANGED <<trackerVars, evalVars, monVars, clientVars, asyncVariant, accepted, closing>>

AsyncNext ==
    \/ \E event \in GatedEvents \cup {OtherEvent}, signed \in BOOLEAN, age \in Ages :
          AsyncUnauthorized(event, signed, age)
    \/ \E age \in Ages : AsyncUnhandledEvent(age)
    \/ \E plainToken \in PlainTokens, signed \in BOOLEAN, age \in Ages :
          AsyncUrlValidation(plainToken, signed, age)
    \/ \E id \in AsyncIds, age \in Ages : AsyncMeetingStarted(id, age)
    \/ \E id \in AsyncIds, age \in Ages, endTime \in AsyncEndTimes :
          AsyncMeetingEnded(id, age, endTime)
    \/ \E k \in 1..Len(inFlight) : ReadEnds(k)
    \/ \E k \in 1..Len(inFlight) : WriteCompletes(k)

SpecAsync == AsyncInit /\ [][AsyncNext]_vars

\* the file holds a row for the meeting id
HasRow(id) == \E i \in 1..Len(csvFile.rows) : csvFile.rows[i].ID = id

\* C13: once no file operation is in flight, the file holds a row for every
\* meeting id whose started event was accepted.
C13_NoRowLost ==
    inFlight = <<>> => \A id \in accepted : HasRow(id)

---------------------------------------------------------------------------
(* Properties of the request handling *)

\* the step handles a webhook request
RequestStep == handled' = handled + 1

\* C14: an ended event finds a session for its id only if it is the first
\* ended event for that id since the last started event: the handler that
\* looks the session up also removes it before any other handler runs, so no
\* two ended events for one id both find the session.
C14_OneEndedFindsTheSession ==
    [][\A id \in MeetingIds :
          (EndedStep(id) /\ id \in DOMAIN ongoingMeetings) => journal[id].ended = 0]_vars

\* C15: a step that handles an ended event for an open session whose topic is
\* a course name, and that persists no record, still removes the session.
C15_ClearedWhenPersistFails ==
    [][\A id \in MeetingIds :
          (/\ EndedStep(id)
           /\ id \in DOMAIN ongoingMeetings
           /\ findCourse(ongoingMeetings[id].topic) # 0
           /\ attendance' = attendance)
              => id \notin DOMAIN ongoingMeetings']_vars

\* C16: a started or ended request whose signature is wrong is answered with
\* 401 and changes neither the tracker nor the records nor the mailbox.
C16_BadSignatureIs401 ==
    [][(RequestStep /\ req'.event \in GatedEvents /\ ~req'.signed)
          => /\ res' = 401
             /\ UNCHANGED <<ongoingMeetings, attendance, mailbox>>]_vars

\* C17: a correctly signed, well-formed request whose event is none of the
\* handled ones is answered with 200 and changes neither the tracker nor the
\* record store.
C17_OtherEventIs200 ==
    [][(RequestStep /\ req'.event = OtherEvent /\ req'.signed /\ req'.wellFormed)
          => /\ res' = 200
             /\ UNCHANGED <<ongoingMeetings, attendance, csvLines, csvFile>>]_vars

\* the two misses: an ended step for an id with no open session, or for a
\* session whose topic is no course name, is answered with 200
EndedMissIs200 ==
    [][\A id \in MeetingIds :
          (/\ EndedStep(id)
           /\ \/ id \notin DOMAIN ongoingMeetings
              \/ findCourse(ongoingMeetings[id].topic) = 0)
              => res' = 200]_vars

\* C18: every ended event that is handled (it has passed the signature check
\* where there is one) is answered with 200, also when there is no open
\* session for its id and when the topic of the session is no course name.
C18_EndedIs200 ==
    [][\A id \in MeetingIds : EndedStep(id) => res' = 200]_vars

\* the topic is the topic of a course of courses.json of the monitor services
IsCourseTopic(topic) ==
    \E i \in 1..Len(monCourses) : monCourses[i].topic = topic

\* C19: a row whose topic is no course topic never gets a duration or a
\* payment written into it by an ended event.
C19_NoMatchWritesNothing ==
    \A i \in 1..Len(csvLines) :
        (/\ csvLines[i] # EmptyLine
         /\ "payment" \in DOMAIN csvLines[i]
         /\ ~IsCourseTopic(csvLines[i].topic))
            => (csvLines[i].total_time = Blank /\ csvLines[i].payment = Blank)

\* C20: a request with a malformed payload is answered with a 4xx status and
\* changes neither the tracker nor the records.
C20_MalformedIs4xx ==
    [][(RequestStep /\ ~req'.wellFormed)
          => /\ res' \in 400..499
             /\ UNCHANGED <<ongoingMeetings, attendance>>]_vars

\* C21: every endpoint.url_validation request is answered, in the same
\* request, with 200 and a body holding the request's plainToken and its
\* HMAC-SHA256 digest under the secret token, and it changes neither the
\* tracker nor the record store.
C21_ValidationAnswered ==
    [][(RequestStep /\ req'.event = ValidationEvent)
          => /\ res' = 200
             /\ resBody' = [plainToken |-> req'.plainToken,
                            encryptedToken |->
                                hmacSha256Hex(ZOOM_WEBHOOK_SECRET_TOKEN, req'.plainToken)]
             /\ UNCHANGED <<ongoingMeetings, attendance, mailbox, csvLines,
                            csvFile, inFlight>>]_vars

\* the request was handled by a started or ended handler of the service
\* that checks the age of the timestamp
FreshnessStep ==
    RequestStep /\ asyncVariant = "index.html" /\ req'.event \in GatedEvents

\* C22: in the service that checks timestamp freshness, a started or ended
\* request whose timestamp is more than 300000 ms older than the current time
\* is answered 401 and starts no file operation; a request within the window
\* and with a valid signature is answered 200 and its handler starts its file
\* operation.
C22_StaleRejectedFreshProcessed ==
    [][FreshnessStep
          => /\ req'.age > StalenessWindow
                => (res' = 401 /\ UNCHANGED <<csvFile, inFlight, accepted>>)
             /\ (abs(req'.age) <= StalenessWindow /\ req'.signed)
                => (res' = 200 /\ Len(inFlight') = Len(inFlight) + 1)]_vars

\* C22 witness: after a started request within the window was processed, a
\* correctly signed request with a timestamp older than the window was
\* answered 401.
C22_Witness ==
    /\ asyncVariant = "index.html"
    /\ accepted # {}
    /\ req.event \in GatedEvents
    /\ req.signed
    /\ req.age > StalenessWindow
    /\ res = 401

\* the file holds a row of the meeting id whose end time is set
HasClosedRow(id) ==
    \E i \in 1..Len(csvFile.rows) :
        csvFile.rows[i].ID = id /\ csvFile.rows[i].EndTime # ""

\* C31: when the started event of a meeting id was handled before its ended
\* event, then once no file operation is pending the file holds a row of the
\* id with its end time set, whatever the order in which the append of the
\* started row and the read of the ended handler completed.
C31_EndedAfterStartedClosesRow ==
    inFlight = <<>> => \A id \in closing : HasClosedRow(id)

\* the step completes the rewrite of the file that a meeting.ended event for
\* the meeting id started
RewriteStep(k, id) ==
    /\ k \in 1..Len(inFlight)
    /\ inFlight[k].kind = "write"
    /\ "meetingId" \in DOMAIN inFlight[k]
    /\ inFlight[k].meetingId = id
    /\ inFlight' = removeAt(inFlight, k)
    /\ csvFile'.rows = inFlight[k].records

\* C27: the rewrite of a meeting.ended event leaves every row unchanged that
\* belongs to another meeting or whose end time is already set; so a duplicate
\* meeting.ended changes nothing and a closed row is never filled again.
C27_EndedFillsOnlyOpenRow ==
    [][\A k \in 1..Len(inFlight), id \in AsyncIds :
          RewriteStep(k, id)
             => \A i \in 1..Len(csvFile.rows) :
                   (csvFile.rows[i].ID # id \/ csvFile.rows[i].EndTime # "")
                      => /\ i <= Len(csvFile'.rows)
                         /\ csvFile'.rows[i] = csvFile.rows[i]]_vars

\* C39: every webhook request whose handling completes without an exception
\* (every answer other than the 500 of Express's error handler) gets exactly
\* one response from the handler: never none and never two.
C39_ExactlyOneResponse ==
    [][(RequestStep /\ res' # 500) => responses' = 1]_vars

\* C39 witness: an ended request was answered 'No matching course found.' by
\* the send-and-return inside the handler, and by nothing else.
C39_Witness ==
    /\ req.event = "meeting.ended"
    /\ res = 200
    /\ resBody = NoMatchingCourse
    /\ responses = 1

---------------------------------------------------------------------------
(* The dashboard client: src/public/client.js holds two page scripts.  Both
   keep the list attendanceRecords, replace it when initialData arrives, and
   on attendanceUpdated drop the records with the key of the new record, push
   the new record and render the table again.  The key is the course (name,
   scheduled week day, scheduled time) in the first script and the meeting id
   in the second.  The messages come from the socket: their content is an
   input.  initialData is sent on connection, before any update reaches the
   socket. *)

MaxInitial == 2

MaxUpdates == 2

ClientVariants == {"course", "meeting"}

\* the fields of a record that the filters and the row class read
clientRecord(course, meetingId, status) ==
    [course_name |-> course.course_name,
     meeting_id |-> meetingId,
     scheduled_week_day |-> course.scheduled_week_day,
     scheduled_time |-> course.scheduled_time,
     status |-> status]

ClientRecords ==
    {clientRecord(courses[c], id, status) :
        c \in 2..Len(courses), id \in MeetingIds,
        status \in {"Attended", "Not attended"}}

\* the lists an initialData message can carry
DataLists ==
    UNION {[1..n -> ClientRecords] : n \in 0..MaxInitial}

\* Mutant: records of the same course name are taken for the same course
sameCourse_nameOnly(r, record) ==
    r.course_name = record.course_name

\* the test negated by the filter of the first script
sameCourse(r, record) ==
    /\ r.course_name = record.course_name
    /\ r.scheduled_week_day = record.scheduled_week_day
    /\ r.scheduled_time = record.scheduled_time

filterCourse(list, record) ==
    SelectSeq(list, LAMBDA r : ~sameCourse(r, record))

filterMeeting(list, record) ==
    SelectSeq(list, LAMBDA r : r.meeting_id # record.meeting_id)

\* the class of a row: first script, second script
rowClass(v, status) ==
    IF v = "course"
    THEN CASE status = "Attended" -> "attended"
           [] status = "Not attended" -> "not-attended"
           [] status = "Scheduled" -> "scheduled"
           [] OTHER -> ""
    ELSE IF status = "Attended" THEN "attended" ELSE "not-attended"

\* renderTable: the body is cleared and gets one row per record, in order
renderTable(v, list) ==
    [i \in 1..Len(list) |-> [class |-> rowClass(v, list[i].status),
                             record |-> list[i]]]

ClientInit ==
    /\ clientVariant \in ClientVariants
    /\ attendanceRecords = <<>>
    /\ tbody = <<>>
    /\ initial = <<>>
    /\ updates = <<>>
    /\ variant = "none"
    /\ ongoingMeetings = [k \in {} |-> NoEval]
    /\ attendance = <<>>
    /\ mailbox = <<>>
    /\ res = 0
    /\ responses = 0
    /\ resBody = NoBody
    /\ req = NoRequest
    /\ journal = [id \in MeetingIds |-> NoJournal]
    /\ handled = 0
    /\ evalIn = NoEval
    /\ evalOut = NoEval
    /\ MonitorOff
    /\ AsyncOff

\* socket.on('initialData'): the page has one connection, and its initialData
\* arrives before any update
InitialData ==
    /\ clientVariant \in ClientVariants
    /\ initial = <<>>
    /\ updates = <<>>
    /\ \E data \in DataLists :
          /\ attendanceRecords' = data
          /\ tbody' = renderTable(clientVariant, data)
          /\ initial' = data
    /\ UNCHANGED <<clientVariant, updates, trackerVars, evalVars, monVars, asyncVars>>

\* socket.on('attendanceUpdated') of the first script
CourseAttendanceUpdated(record) ==
    /\ clientVariant = "course"
    /\ Len(updates) < MaxUpdates
    /\ updates' = Append(updates, record)
    /\ attendanceRecords' = Append(filterCourse(attendanceRecords, record), record)
    /\ tbody' = renderTable(clientVariant, attendanceRecords')
    /\ UNCHANGED <<clientVariant, initial, trackerVars, evalVars, monVars, asyncVars>>

\* socket.on('attendanceUpdated') of the second script
MeetingAttendanceUpdated(record) ==
    /\ clientVariant = "meeting"
    /\ Len(updates) < MaxUpdates
    /\ updates' = Append(updates, record)
    /\ attendanceRecords' = Append(filterMeeting(attendanceRecords, record), record)
    /\ tbody' = renderTable(clientVariant, attendanceRecords')
    /\ UNCHANGED <<clientVariant, initial, trackerVars, evalVars, monVars, asyncVars>>

ClientNext ==
    \/ InitialData
    \/ \E record \in ClientRecords : CourseAttendanceUpdated(record)
    \/ \E record \in ClientRecords : MeetingAttendanceUpdated(record)

SpecClient == ClientInit /\ [][ClientNext]_vars

\* the key of a record in the running script
keyOf(r) ==
    IF clientVariant = "meeting"
    THEN <<r.meeting_id>>
    ELSE <<r.course_name, r.scheduled_week_day, r.scheduled_time>>

UniqueKeys(list) ==
    \A i, j \in 1..Len(list) : keyOf(list[i]) = keyOf(list[j]) => i = j

UpdatedKeys == {keyOf(updates[i]) : i \in 1..Len(updates)}

\* the most recent update with the key
LastUpdate(key) ==
    LET n == CHOOSE i \in 1..Len(updates) :
                 /\ keyOf(updates[i]) = key
                 /\ \A j \in (i + 1)..Len(updates) : keyOf(updates[j]) # key
    IN  updates[n]

\* the records of the displayed rows, in order
Displayed == [i \in 1..Len(tbody) |-> tbody[i].record]

\* C38: when the client started from a list with unique keys, the displayed
\* list holds at most one record per key, the record held for a key that was
\* updated is the most recent update with that key, and the records of the
\* other keys are those of the starting list, unchanged and in their order.
C38_OneRecordPerKeyLatestWins ==
    UniqueKeys(initial)
        => /\ Displayed = attendanceRecords
           /\ UniqueKeys(Displayed)
           /\ \A key \in UpdatedKeys :
                 \E i \in 1..Len(Displayed) : Displayed[i] = LastUpdate(key)
           /\ SelectSeq(Displayed, LAMBDA r : keyOf(r) \notin UpdatedKeys)
                 = SelectSeq(initial, LAMBDA r : keyOf(r) \notin UpdatedKeys)

\* C38 witness: the starting list held two keys; two different updates came
\* for the first of them; the list shows the other record and the later update.
C38_Witness ==
    /\ Len(initial) = 2
    /\ UniqueKeys(initial)
    /\ Len(updates) = 2
    /\ keyOf(updates[1]) = keyOf(initial[1])
    /\ keyOf(updates[2]) = keyOf(initial[1])
    /\ updates[1] # updates[2]
    /\ updates[2] # initial[1]
    /\ Displayed = <<initial[2], updates[2]>>

====
